---- MODULE Spec2Model ----
(***************************************************************************)
(* The Oasis process-mining backend (FastAPI): the process-wide lists      *)
(* state.logs, state.models and state.ocels, the active model state.model, *)
(* and the endpoint handlers of backend/routers/*.py.                      *)
(*                                                                         *)
(* A handler is an operator from its arguments, the behaviour of the       *)
(* process-mining library and of the file system during the call (the set  *)
(* R of steps that raise) and the current state, to the state it leaves    *)
(* and the JSON object it returns.  The opaque library objects (event log, *)
(* Petri net, BPMN, OCEL) are represented by the number of the upload that *)
(* stored them.                                                            *)
(*                                                                         *)
(*   Spec      every endpoint, one request handled at a time               *)
(*   SpecRace  two clients whose requests on the log list alternate        *)
(*   SpecLoop  the handler coroutines on the single-threaded event loop    *)
(*   SpecFootprint  the footprint helpers applied to two footprints         *)
(*   SpecVariants   the per-variant diagnostics of conformance_log_model    *)
(*   SpecAvailable  the available_variants list of explore                  *)
(*   SpecInsights   get_log_insights applied to an event log                *)
(*   SpecFilters    the filters of update_dfg applied to an event log       *)
(***************************************************************************)
EXTENDS Integers, Sequences, FiniteSets, TLC

VARIABLES
    logs,      \* state.logs   : sequence of {"metadata", "log_object"}
    models,    \* state.models : sequence of {"metadata", "model_object"}
    ocels,     \* state.ocels  : sequence of {"metadata", "ocel_object"}
    model,     \* state.model  : the currently active model, None at start
    clock,     \* number of objects stored so far (datetime.now(), object identity)
    last,      \* the request just handled, the state it started from, the object returned
    view,      \* the log listing client "A" was last shown by get_logs
    stale,     \* smallest index another client deleted since that listing
    pc,        \* event loop: position of each client's handler coroutine
    req,       \* event loop: the request each client's coroutine is serving
    running,   \* event loop: the coroutine that holds the thread (SpecRace: the client served)
    arg,       \* helpers: the library results the helper code is applied to
    ret        \* helpers: what the helper code made of them

vars == <<logs, models, ocels, model, clock, last, view, stale, pc, req, running, arg, ret>>

\* ------------------------------------------------------------------ bounds

MaxClock == 2     \* objects stored in one run of the process
MaxRaises == 1    \* steps of one handler call that raise
MaxCases == 3     \* cases of the log whose variants are diagnosed
MaxPairs == 3     \* pairs in the sequence set and in the parallel set of a footprint dict

\* ------------------------------------------------------------------ values

None == 0                         \* state.model before any upload; objects are 1, 2, ...
NoLast == [ep |-> "none"]         \* no returned object is on its way
NoRequest == [ep |-> "idle"]      \* the client has no request under way
NoClient == "none"                \* no coroutine holds the thread
NoMessage == "<no message field>" \* the returned object has no "message" key
NoMetrics == [none |-> TRUE]      \* the returned object has no metrics keys
NoArg == [kind |-> "none"]        \* no library result is under study
NoRet == [op |-> "none"]          \* no helper has been applied

Clients == {"A", "B"}

\* No entry the listing showed has been deleted: an index no list reaches.
NoStale == MaxClock

\* Index arguments the clients send: one below the range a list can have, the
\* whole range, and one above.
Indices == -1 .. MaxClock

\* File names the clients upload, one per branch of the extension tests.
FileNames == {"", "l.xes", "l.csv", "m.pnml", "m.bpmn", "o.jsonocel", "o.xmlocel", "x.txt"}

\* str.endswith on the uploaded names (none of them ends with ".json" or ".xml").
EndsWith(f, ext) ==
    CASE ext = ".xes" -> f = "l.xes"
      [] ext = ".csv" -> f = "l.csv"
      [] ext = ".pnml" -> f = "m.pnml"
      [] ext = ".bpmn" -> f = "m.bpmn"
      [] ext = ".jsonocel" -> f = "o.jsonocel"
      [] ext = ".xmlocel" -> f = "o.xmlocel"
      [] OTHER -> FALSE

\* The step of a finally clause, which runs whatever raised before it.
Finally == {"unlink"}

\* The sets of steps that raise in one call, out of the steps P of the handler:
\* at most MaxRaises of them, the finally clause's step not counted.
RaiseSets(P) == {R \in SUBSET P : Cardinality(R \ Finally) <= MaxRaises}

\* ------------------------------------------------------------------ Python lists

\* len(lst)
len(lst) == Len(lst)

\* lst[i] is defined for -len <= i < len; a negative i counts from the end.
PyInRange(lst, i) == -Len(lst) <= i /\ i < Len(lst)

\* The 1-based position lst[i] denotes.
PyPos(lst, i) == IF i < 0 THEN Len(lst) + i + 1 ELSE i + 1

PyGet(lst, i) == lst[PyPos(lst, i)]

\* Faulty variant of pop: an off-by-one, the element after position i is removed
\* (the last one when i is the last position).
pop_next(lst, i) ==
    LET p == IF PyPos(lst, i) < Len(lst) THEN PyPos(lst, i) + 1 ELSE PyPos(lst, i)
    IN  SubSeq(lst, 1, p - 1) \o SubSeq(lst, p + 1, Len(lst))

\* Faulty variant of pop: lst.pop() without the index, the last element is removed.
pop_last(lst, i) == SubSeq(lst, 1, Len(lst) - 1)

\* lst.pop(i): the list without the element at position i.
pop(lst, i) ==
    LET p == PyPos(lst, i)
    IN  SubSeq(lst, 1, p - 1) \o SubSeq(lst, p + 1, Len(lst))

\* Faulty variant of append: lst.insert(0, x).
insert_front(lst, x) == <<x>> \o lst

\* lst.append(x)
append(lst, x) == Append(lst, x)

\* The read of lst[i] by a handler: the list, the position and the entry found there.
Read(name, lst, i) == <<name, PyPos(lst, i), PyGet(lst, i)>>

\* Faulty variant of Metadata: the newest entry first.
Metadata_newest_first(lst) == [k \in 1 .. Len(lst) |-> lst[Len(lst) + 1 - k].metadata]

\* [entry["metadata"] for entry in lst]
Metadata(lst) == [k \in 1 .. Len(lst) |-> lst[k].metadata]

\* ------------------------------------------------------------------ entries

LogEntry(filename, t) ==
    [metadata |-> [filename |-> filename, uploaded_at |-> t], log_object |-> t]

ModelEntry(filename, t, model_type) ==
    [metadata |-> [filename |-> filename, uploaded_at |-> t, model_type |-> model_type],
     model_object |-> t]

OcelEntry(filename, t) ==
    [metadata |-> [filename |-> filename, uploaded_at |-> t], ocel_object |-> t]

\* len(state.logs), len(state.models), len(state.ocels) as a handler's index
\* validation sees them.
Lens == [logs |-> len(logs), models |-> len(models), ocels |-> len(ocels)]

\* The global state a handler starts from.
Cur == [logs |-> logs, models |-> models, ocels |-> ocels, model |-> model, clock |-> clock]

\* What a handler call leaves behind: the new global state and the returned object.
Ret(st, out) == [st |-> st, out |-> out]

\* ------------------------------------------------------------------ returned objects

\* A response without insights, and the insights of a log whose statistics the
\* handlers do not look into.
NoInsights == [insights |-> "none"]
ComputedInsights == [insights |-> "computed"]

\* An empty dict.
EmptyDict == <<>>

\* The dictionary get_log_insights returns from its except clause (lines 138-158).
ZeroInsights ==
    [num_events |-> 0, num_cases |-> 0, num_activities |-> 0, num_trace_variants |-> 0,
     activity_frequencies |-> EmptyDict, activity_case_counts |-> EmptyDict,
     activity_durations |-> EmptyDict, trace_variants |-> <<>>,
     start_activities |-> EmptyDict, end_activities |-> EmptyDict,
     log_avg_tpt |-> 0, log_min_tpt |-> 0, log_max_tpt |-> 0, log_median_tpt |-> 0,
     error |-> "str(e)"]

\* A returned JSON object, with what the handler did on the way: the list
\* positions it read, whether it called the process-mining library, whether it
\* wrote a file, what became of the temporary upload file, and which except
\* clauses ran ("caught": the handler's own; the name of a step: the one of the
\* inner try around that step, which goes on with a fallback value; "insights":
\* the one of get_log_insights), and the insights the response carries.
Out(status, message, reads, calls, wrote) ==
    [status |-> status, message |-> message, reads |-> reads, calls |-> calls,
     wrote |-> wrote, tmp |-> "none", metrics |-> NoMetrics, listing |-> <<>>, count |-> 0,
     raised |-> {}, insights |-> NoInsights]

\* return {"message": ..., "status": "success"}
Success(message, reads, calls, wrote) == Out("success", message, reads, calls, wrote)

\* return {"message": ..., "status": "error"} on a failed validation
Error(message, reads, calls, wrote) == Out("error", message, reads, calls, wrote)

\* An exception that leaves the handler: the framework answers, not the handler.
\* (What a handler without its except clause would do.)
Escapes(message, reads, calls, wrote) ==
    [Out("unhandled exception", NoMessage, reads, calls, wrote) EXCEPT !.raised = {"escaped"}]

\* except Exception as e: return {"message": f"...: {str(e)}", "status": "error"}
Caught(message, reads, calls, wrote) ==
    [Out("error", message, reads, calls, wrote) EXCEPT !.raised = {"caught"}]

\* state.logs[i] with i out of range: the IndexError ends in the handler's except.
IndexError(message, reads) ==
    [Caught(message, reads, FALSE, FALSE) EXCEPT !.raised = {"caught", "IndexError"}]

\* None < 0: the TypeError ends in the handler's except.
TypeError(message) ==
    [Caught(message, {}, FALSE, FALSE) EXCEPT !.raised = {"caught", "TypeError"}]

\* except Exception: <fallback value>, inside the handler's try: the handler goes on.
Absorbed(out, steps) == [out EXCEPT !.raised = @ \cup steps]

\* Faulty variant of insights: get_log_insights without its try block, so that
\* the exception of a step inside it ends in the handler's except clause.
insights_raise(out, R) ==
    IF out.status # "success" THEN out
    ELSE IF "insights" \in R THEN Caught(out.message, out.reads, out.calls, out.wrote)
    ELSE [out EXCEPT !.insights = ComputedInsights]

\* insights = get_log_insights(log) inside a handler, whose response `out` is
\* what the other steps made it: the call raises nothing into the handler; when
\* a step inside it raises, its own except clause returns the zeroed dictionary
\* and the handler goes on.  A handler that ended in its except clause returns
\* no insights.
insights(out, R) ==
    IF out.status # "success" THEN out
    ELSE [Absorbed(out, R \cap {"insights"})
          EXCEPT !.insights = IF "insights" \in R THEN ZeroInsights ELSE ComputedInsights]

\* return {"logs": metadata, "count": len(metadata), "status": "success"}
Listing(metadata) ==
    [Out("success", NoMessage, {}, FALSE, FALSE) EXCEPT !.listing = metadata, !.count = len(metadata)]

\* ------------------------------------------------------------------ routers/data.py

\* The steps of an upload handler that can raise: the await of the request body,
\* the creation of the temporary file, the write into it, the library's parser,
\* the statistics taken from the parsed object, and the final os.unlink.
upload_log_steps == {"read", "tempfile", "write", "parse", "stats", "unlink"}

\* The try/except/finally block of upload_log (lines 29-85), without the finally.
upload_log_try(filename, R) ==
    IF ~(EndsWith(filename, ".xes") \/ EndsWith(filename, ".csv"))
    THEN Ret(Cur, Error("Unsupported file format. Please upload .xes or .csv files.", {}, FALSE, TRUE))
    ELSE IF "parse" \in R
    THEN Ret(Cur, Caught("Error processing event log", {}, TRUE, TRUE))
    ELSE IF "stats" \in R
    THEN Ret(Cur, Caught("Error processing event log", {}, TRUE, TRUE))
    ELSE Ret([Cur EXCEPT !.clock = clock + 1,
                         !.logs = append(logs, LogEntry(filename, clock + 1))],
             Success("Event log successfully uploaded and processed", {}, TRUE, TRUE))

\* The finally clause of the upload handlers: os.unlink of the temporary file; when
\* it raises, the outer except answers instead of the return that was under way.
upload_finally(r, R) ==
    IF "unlink" \in R
    THEN Ret(r.st, [Caught("Error uploading file", r.out.reads, r.out.calls, TRUE) EXCEPT !.tmp = "left"])
    ELSE Ret(r.st, [r.out EXCEPT !.tmp = "removed"])

\* The part of the upload handlers before the inner try: the body is read, the
\* file name tested and the temporary file written; status "go" when the inner try
\* is entered.
upload_open(filename, R) ==
    IF "read" \in R THEN Caught("Error uploading file", {}, FALSE, FALSE)
    ELSE IF filename = "" THEN Error("No file provided", {}, FALSE, FALSE)
    ELSE IF "tempfile" \in R THEN Caught("Error uploading file", {}, FALSE, FALSE)
    ELSE IF "write" \in R
    THEN [Caught("Error uploading file", {}, FALSE, TRUE) EXCEPT !.tmp = "left"]
    ELSE Out("go", NoMessage, {}, FALSE, TRUE)

upload_log(filename, R) ==
    IF upload_open(filename, R).status # "go"
    THEN Ret(Cur, upload_open(filename, R))
    ELSE upload_finally(upload_log_try(filename, R), R)

upload_model_steps == {"read", "tempfile", "write", "parse", "render", "svg", "unlink"}

\* The try block of upload_model (lines 109-165): the model is made the active
\* model as soon as it is parsed, before it is rendered and appended.
upload_model_try(filename, R) ==
    IF ~(EndsWith(filename, ".pnml") \/ EndsWith(filename, ".bpmn"))
    THEN Ret(Cur, Error("Unsupported file format. Please upload .pnml or .bpmn files.", {}, FALSE, TRUE))
    ELSE IF "parse" \in R
    THEN Ret(Cur, Caught("Error processing model", {}, TRUE, TRUE))
    ELSE IF "render" \in R \/ "svg" \in R
    THEN Ret([Cur EXCEPT !.clock = clock + 1, !.model = clock + 1],
             Caught("Error processing model", {}, TRUE, TRUE))
    ELSE Ret([Cur EXCEPT !.clock = clock + 1, !.model = clock + 1,
                         !.models = append(models,
                             ModelEntry(filename, clock + 1,
                                 IF EndsWith(filename, ".pnml") THEN "Petri Net" ELSE "BPMN"))],
             Success("Model successfully uploaded and processed", {}, TRUE, TRUE))

upload_model(filename, R) ==
    IF upload_open(filename, R).status # "go"
    THEN Ret(Cur, upload_open(filename, R))
    ELSE upload_finally(upload_model_try(filename, R), R)

upload_ocel_steps == {"read", "tempfile", "write", "parse", "stats", "unlink"}

upload_ocel_try(filename, R) ==
    IF ~(\/ EndsWith(filename, ".jsonocel") \/ EndsWith(filename, ".json")
         \/ EndsWith(filename, ".xmlocel") \/ EndsWith(filename, ".xml")
         \/ EndsWith(filename, ".csv"))
    THEN Ret(Cur, Error("Unsupported file format. Please upload .jsonocel, .xmlocel, or .csv files.", {}, FALSE, TRUE))
    ELSE IF "parse" \in R
    THEN Ret(Cur, Caught("Error processing OCEL", {}, TRUE, TRUE))
    ELSE IF "stats" \in R
    THEN Ret(Cur, Caught("Error processing OCEL", {}, TRUE, TRUE))
    ELSE Ret([Cur EXCEPT !.clock = clock + 1,
                         !.ocels = append(ocels, OcelEntry(filename, clock + 1))],
             Success("OCEL successfully uploaded and processed", {}, TRUE, TRUE))

upload_ocel(filename, R) ==
    IF upload_open(filename, R).status # "go"
    THEN Ret(Cur, upload_open(filename, R))
    ELSE upload_finally(upload_ocel_try(filename, R), R)

get_logs == Ret(Cur, Listing(Metadata(logs)))

get_models == Ret(Cur, Listing(Metadata(models)))

get_ocels == Ret(Cur, Listing(Metadata(ocels)))

\* deleted['metadata']['filename'] of the success message: a KeyError unless the
\* popped entry has the key "metadata" and its metadata the key "filename".
HasMetadataFilename(entry) ==
    "metadata" \in DOMAIN entry /\ "filename" \in DOMAIN entry.metadata

\* deleted_model['filename'] of delete_model's success message.
HasFilename(entry) == "filename" \in DOMAIN entry

delete_log(index, seen) ==
    IF 0 <= index /\ index < seen.logs
    THEN IF ~PyInRange(logs, index)
         THEN Ret(Cur, IndexError("Error deleting log", {}))
         ELSE IF HasMetadataFilename(PyGet(logs, index))
         THEN Ret([Cur EXCEPT !.logs = pop(logs, index)],
                  Success("Successfully deleted log", {Read("logs", logs, index)}, FALSE, FALSE))
         ELSE Ret([Cur EXCEPT !.logs = pop(logs, index)],
                  Caught("Error deleting log", {Read("logs", logs, index)}, FALSE, FALSE))
    ELSE Ret(Cur, Error("Invalid index. No log found at this position.", {}, FALSE, FALSE))

delete_model(index, seen) ==
    IF 0 <= index /\ index < seen.models
    THEN IF ~PyInRange(models, index)
         THEN Ret(Cur, IndexError("Error deleting model", {}))
         ELSE IF HasFilename(PyGet(models, index))
         THEN Ret([Cur EXCEPT !.models = pop(models, index)],
                  Success("Successfully deleted model", {Read("models", models, index)}, FALSE, FALSE))
         ELSE Ret([Cur EXCEPT !.models = pop(models, index)],
                  Caught("Error deleting model", {Read("models", models, index)}, FALSE, FALSE))
    ELSE Ret(Cur, Error("Invalid index. No model found at this position.", {}, FALSE, FALSE))

delete_ocel(index, seen) ==
    IF 0 <= index /\ index < seen.ocels
    THEN IF ~PyInRange(ocels, index)
         THEN Ret(Cur, IndexError("Error deleting OCEL", {}))
         ELSE IF HasMetadataFilename(PyGet(ocels, index))
         THEN Ret([Cur EXCEPT !.ocels = pop(ocels, index)],
                  Success("Successfully deleted OCEL", {Read("ocels", ocels, index)}, FALSE, FALSE))
         ELSE Ret([Cur EXCEPT !.ocels = pop(ocels, index)],
                  Caught("Error deleting OCEL", {Read("ocels", ocels, index)}, FALSE, FALSE))
    ELSE Ret(Cur, Error("Invalid index. No OCEL found at this position.", {}, FALSE, FALSE))

\* ------------------------------------------------------------------ library results

\* A number of a JSON object, and a string of one.
Float(v) == [float |-> v]
Str(x) == [str |-> x]

\* isinstance(x, (int, float))
IsNumber(x) == "float" \in DOMAIN x

PN_NOT_SOUND == Str("PN not sound")

\* Fitness and precision values the library reports, in halves: 0.0 and 1.0.
Values == {0, 2}

\* What the library's four conformance measures do in one call: the two
\* token-based-replay values, the two alignment values, and which of the two
\* alignment computations raises. A computation that raises, and the precision
\* computation that is not reached after the fitness one raised, has no value:
\* its field is 0.
MetricInputs ==
    {m \in [tbr_fit : Values, tbr_prec : Values, align_fit : Values, align_prec : Values,
            align_raises : {"none", "fitness", "precision"}] :
        /\ m.align_raises = "fitness" => m.align_fit = 0 /\ m.align_prec = 0
        /\ m.align_raises = "precision" => m.align_prec = 0}

\* The inner try around the two alignment computations, when one of them raises.
AlignRaised(m) == IF m.align_raises # "none" THEN {"align"} ELSE {}

\* 2 * (a * b) / (a + b) if (a + b) > 0 else 0
F1(a, b) == IF a + b > 0 THEN (2 * (a * b)) \div (a + b) ELSE 0

\* Faulty variant of the index validation: the test index < 0 is missing.
InvalidIndexUpperOnly(index, length) == index >= length

\* The index validation shared by the handlers: index < 0 or index >= len(list).
InvalidIndex(index, length) == index < 0 \/ index >= length

\* isinstance(uploaded_model, tuple) and len(uploaded_model) == 3: read_pnml gives
\* the triple (net, im, fm), read_bpmn a BPMN object.
IsPetriNetTuple(entry) == entry.metadata.model_type = "Petri Net"

\* A handler body that only computes: the steps of `before` run before any file is
\* written, the steps of `after` once one has been; any of them raising ends in
\* the handler's except clause.
Compute(R, before, after, reads, failed, done) ==
    IF R \cap before # {} THEN Caught(failed, reads, TRUE, FALSE)
    ELSE IF R \cap after # {} THEN Caught(failed, reads, TRUE, TRUE)
    ELSE Success(done, reads, TRUE, TRUE)

\* ------------------------------------------------------------------ routers/exploration.py

\* The steps of explore that can raise: the library's discovery calls, the
\* rendering and reading of the SVG files, and the computation inside
\* get_log_insights.
explore_steps == {"discover", "render", "insights"}

\* Faulty variant of explore: state.logs.pop(log_index) where the code has
\* state.logs[log_index].
explore_pop(log_index, R, seen) ==
    IF InvalidIndex(log_index, seen.logs)
    THEN Ret(Cur, Error("Invalid log index", {}, FALSE, FALSE))
    ELSE IF ~PyInRange(logs, log_index)
    THEN Ret(Cur, IndexError("Error exploring log", {}))
    ELSE Ret([Cur EXCEPT !.logs = pop(logs, log_index)],
             insights(Compute(R, {"discover"}, {"render"}, {Read("logs", logs, log_index)},
                              "Error exploring log", "Exploration completed successfully"),
                      R))

explore(log_index, R, seen) ==
    IF InvalidIndex(log_index, seen.logs)
    THEN Ret(Cur, Error("Invalid log index", {}, FALSE, FALSE))
    ELSE IF ~PyInRange(logs, log_index)
    THEN Ret(Cur, IndexError("Error exploring log", {}))
    ELSE Ret(Cur, insights(Compute(R, {"discover"}, {"render"},
                                   {Read("logs", logs, log_index)},
                                   "Error exploring log", "Exploration completed successfully"),
                           R))

\* The form fields selected_activities and selected_variants: text json.loads
\* rejects, the JSON text of empty lists (no filter is applied), the JSON text of
\* lists that select something.
FilterInputs == {"not json", "[]", "[a]"}

update_dfg_steps == {"filter", "discover", "render"}

update_dfg(log_index, selected, R, seen) ==
    IF InvalidIndex(log_index, seen.logs)
    THEN Ret(Cur, Error("Invalid log index", {}, FALSE, FALSE))
    ELSE IF ~PyInRange(logs, log_index)
    THEN Ret(Cur, IndexError("Please make filterings such that the resulting DFG is not empty",
                         {}))
    ELSE IF selected = "not json"
    THEN Ret(Cur, Caught("Please make filterings such that the resulting DFG is not empty",
                         {Read("logs", logs, log_index)}, FALSE, FALSE))
    ELSE Ret(Cur, Compute(IF selected = "[]" THEN R \ {"filter"} ELSE R,
                          {"filter", "discover"}, {"render"}, {Read("logs", logs, log_index)},
                          "Please make filterings such that the resulting DFG is not empty",
                          "DFG updated with filters"))

valid_types == {"days_month", "months", "years", "hours", "days_week", "weeks"}

\* The distr_type values the clients send.
DistrInputs == {"days_week", "hours", "minutes"}

update_event_distribution_graph_steps == {"render", "svg"}

update_event_distribution_graph(log_index, distr_type, R, seen) ==
    IF InvalidIndex(log_index, seen.logs)
    THEN Ret(Cur, Error("Invalid log index", {}, FALSE, FALSE))
    ELSE IF ~PyInRange(logs, log_index)
    THEN Ret(Cur, IndexError("Error updating event distribution graph", {}))
    ELSE IF distr_type \notin valid_types
    THEN Ret(Cur, Error("Invalid distribution type. Must be one of", {Read("logs", logs, log_index)},
                        FALSE, FALSE))
    ELSE Ret(Cur, Compute(R, {"render"}, {"svg"}, {Read("logs", logs, log_index)},
                          "Error updating event distribution graph",
                          "Event distribution graph updated with type"))

\* ------------------------------------------------------------------ routers/discovery.py

\* Faulty variant of calculate_conformance_metrics: the means are taken as if the
\* alignment values were always there.
calculate_conformance_metrics_mean(m) ==
    LET alignment_available == m.align_raises = "none"
    IN  [tbr_fitness |-> Float(m.tbr_fit),
         align_fitness |-> IF alignment_available THEN Float(m.align_fit) ELSE PN_NOT_SOUND,
         tbr_precision |-> Float(m.tbr_prec),
         align_precision |-> IF alignment_available THEN Float(m.align_prec) ELSE PN_NOT_SOUND,
         tbr_f1 |-> Float(F1(m.tbr_fit, m.tbr_prec)),
         align_f1 |-> IF alignment_available
                      THEN Float(F1(m.align_fit, m.align_prec))
                      ELSE PN_NOT_SOUND,
         mean_fitness |-> Float((m.tbr_fit + m.align_fit) \div 2),
         mean_precision |-> Float((m.tbr_prec + m.align_prec) \div 2)]

\* The metrics of calculate_conformance_metrics: a failed alignment computation is
\* answered by the string "PN not sound" in place of the three alignment values.
calculate_conformance_metrics(m) ==
    LET alignment_available == m.align_raises = "none"
        align_fitness_value == IF alignment_available THEN Float(m.align_fit) ELSE PN_NOT_SOUND
        align_precision_value == IF alignment_available THEN Float(m.align_prec) ELSE PN_NOT_SOUND
        tbr_fitness == m.tbr_fit
        tbr_precision == m.tbr_prec
    IN  [tbr_fitness |-> Float(tbr_fitness),
         align_fitness |-> align_fitness_value,
         tbr_precision |-> Float(tbr_precision),
         align_precision |-> align_precision_value,
         tbr_f1 |-> Float(F1(tbr_fitness, tbr_precision)),
         align_f1 |-> IF alignment_available
                      THEN Float(F1(m.align_fit, m.align_prec))
                      ELSE PN_NOT_SOUND,
         mean_fitness |-> IF alignment_available
                          THEN Float((tbr_fitness + m.align_fit) \div 2)
                          ELSE Float(tbr_fitness),
         mean_precision |-> IF alignment_available
                            THEN Float((tbr_precision + m.align_prec) \div 2)
                            ELSE Float(tbr_precision)]

discover_steps == {"discover", "render", "insights", "tbr"}

\* The body the four discover_* handlers share: split the log, discover the net,
\* render it, take the insights of both parts, compute the metrics.
discover(failed, done, log_index, R, m, seen) ==
    IF InvalidIndex(log_index, seen.logs)
    THEN Ret(Cur, Error("Invalid log index", {}, FALSE, FALSE))
    ELSE IF ~PyInRange(logs, log_index)
    THEN Ret(Cur, IndexError(failed, {}))
    ELSE IF "discover" \in R
    THEN Ret(Cur, Caught(failed, {Read("logs", logs, log_index)}, TRUE, FALSE))
    ELSE IF "render" \in R \/ "tbr" \in R
    THEN Ret(Cur, Caught(failed, {Read("logs", logs, log_index)}, TRUE, TRUE))
    ELSE Ret(Cur, insights(Absorbed([Success(done,
                                             {Read("logs", logs, log_index)}, TRUE, TRUE)
                                     EXCEPT !.metrics = calculate_conformance_metrics(m)],
                                    AlignRaised(m)),
                           R))

discover_alpha(log_index, R, m, seen) ==
    discover("Error in Alpha discovery", "Alpha algorithm discovery completed",
             log_index, R, m, seen)

discover_ilp(log_index, R, m, seen) ==
    discover("Error in ILP discovery", "ILP algorithm discovery completed",
             log_index, R, m, seen)

discover_heuristics(log_index, R, m, seen) ==
    discover("Error in Heuristics discovery", "Heuristics algorithm discovery completed",
             log_index, R, m, seen)

discover_inductive(log_index, R, m, seen) ==
    discover("Error in Inductive discovery", "Inductive algorithm discovery completed",
             log_index, R, m, seen)

\* ------------------------------------------------------------------ routers/conformance.py

conformance_log_log_steps == {"footprints", "render"}

conformance_log_log(log_index_1, log_index_2, R, seen) ==
    IF InvalidIndex(log_index_1, seen.logs)
    THEN Ret(Cur, Error("Invalid first log index", {}, FALSE, FALSE))
    ELSE IF InvalidIndex(log_index_2, seen.logs)
    THEN Ret(Cur, Error("Invalid second log index", {}, FALSE, FALSE))
    ELSE IF ~PyInRange(logs, log_index_1)
    THEN Ret(Cur, IndexError("Error in log-log conformance checking", {}))
    ELSE IF ~PyInRange(logs, log_index_2)
    THEN Ret(Cur, IndexError("Error in log-log conformance checking",
                         {Read("logs", logs, log_index_1)}))
    ELSE Ret(Cur, Compute(R, {"footprints"}, {"render"},
                          {Read("logs", logs, log_index_1), Read("logs", logs, log_index_2)},
                          "Error in log-log conformance checking",
                          "Log-Log conformance checking completed"))

\* The metrics conformance_log_model computes inline (lines 114-148 and 259-262).
conformance_log_model_metrics(m) ==
    LET alignment_available == m.align_raises = "none"
        align_fitness_value == IF alignment_available THEN Float(m.align_fit) ELSE PN_NOT_SOUND
        align_precision_value == IF alignment_available THEN Float(m.align_prec) ELSE PN_NOT_SOUND
        tbr_fitness == m.tbr_fit
        tbr_precision == m.tbr_prec
        tbr_f1 == F1(tbr_fitness, tbr_precision)
        align_f1 == IF alignment_available THEN Float(F1(m.align_fit, m.align_prec)) ELSE PN_NOT_SOUND
    IN  [tbr_fitness |-> Float(tbr_fitness),
         align_fitness |-> align_fitness_value,
         tbr_precision |-> Float(tbr_precision),
         align_precision |-> align_precision_value,
         tbr_f1 |-> Float(tbr_f1),
         align_f1 |-> align_f1,
         mean_fitness |-> IF alignment_available
                          THEN Float((tbr_fitness + m.align_fit) \div 2)
                          ELSE Float(tbr_fitness),
         mean_precision |-> IF alignment_available
                            THEN Float((tbr_precision + m.align_prec) \div 2)
                            ELSE Float(tbr_precision),
         mean_fitness_combined |-> IF IsNumber(align_fitness_value)
                                   THEN Float((tbr_fitness + align_fitness_value.float) \div 2)
                                   ELSE Float(tbr_fitness),
         mean_precision_combined |-> IF IsNumber(align_precision_value)
                                     THEN Float((tbr_precision + align_precision_value.float) \div 2)
                                     ELSE Float(tbr_precision),
         mean_f1_combined |-> IF IsNumber(align_f1)
                              THEN Float((tbr_f1 + align_f1.float) \div 2)
                              ELSE Float(tbr_f1)]

\* "diagnostics" stands for the two inner try blocks (per-variant alignments and
\* per-variant replay), whose except clauses answer with an empty list.
conformance_log_model_steps == {"convert", "tbr", "footprints", "diagnostics", "render"}

conformance_log_model(log_index, model_index, R, m, seen) ==
    IF InvalidIndex(log_index, seen.logs)
    THEN Ret(Cur, Error("Invalid log index", {}, FALSE, FALSE))
    ELSE IF InvalidIndex(model_index, seen.models)
    THEN Ret(Cur, Error("Invalid model index", {}, FALSE, FALSE))
    ELSE IF ~PyInRange(logs, log_index)
    THEN Ret(Cur, IndexError("Error in log-model conformance checking", {}))
    ELSE IF ~PyInRange(models, model_index)
    THEN Ret(Cur, IndexError("Error in log-model conformance checking",
                         {Read("logs", logs, log_index)}))
    ELSE LET reads == {Read("logs", logs, log_index), Read("models", models, model_index)}
             converts == ~IsPetriNetTuple(PyGet(models, model_index))
         IN  IF converts /\ "convert" \in R
             THEN Ret(Cur, Caught("Error in log-model conformance checking", reads, TRUE, FALSE))
             ELSE IF "tbr" \in R
             THEN Ret(Cur, Caught("Error in log-model conformance checking", reads, TRUE, FALSE))
             ELSE IF "footprints" \in R
             THEN Ret(Cur, Absorbed(Caught("Error in log-model conformance checking",
                                           reads, TRUE, FALSE),
                                    AlignRaised(m)))
             ELSE IF "render" \in R
             THEN Ret(Cur, Absorbed(Caught("Error in log-model conformance checking",
                                           reads, TRUE, TRUE),
                                    AlignRaised(m) \cup (R \cap {"diagnostics"})))
             ELSE Ret(Cur, Absorbed([Success("Log-Model conformance checking completed",
                                             reads, TRUE, TRUE)
                                     EXCEPT !.metrics = conformance_log_model_metrics(m)],
                                    AlignRaised(m) \cup (R \cap {"diagnostics"})))

\* The form field trace_activities: text json.loads rejects, the empty list, a
\* list of activities.
TraceInputs == {"not json", "[]", "[a]"}

\* "empty" is not an exception: the library returns no alignment for the trace.
compute_custom_alignment_steps == {"convert", "template", "align", "empty"}

compute_custom_alignment(log_index, model_index, trace_activities, R, seen) ==
    IF InvalidIndex(log_index, seen.logs)
    THEN Ret(Cur, Error("Invalid log index", {}, FALSE, FALSE))
    ELSE IF InvalidIndex(model_index, seen.models)
    THEN Ret(Cur, Error("Invalid model index", {}, FALSE, FALSE))
    ELSE IF trace_activities = "not json"
    THEN Ret(Cur, Caught("Error computing custom alignment", {}, FALSE, FALSE))
    ELSE IF trace_activities = "[]"
    THEN Ret(Cur, Error("Please provide at least one activity", {}, FALSE, FALSE))
    ELSE IF ~PyInRange(logs, log_index)
    THEN Ret(Cur, IndexError("Error computing custom alignment", {}))
    ELSE IF ~PyInRange(models, model_index)
    THEN Ret(Cur, IndexError("Error computing custom alignment",
                         {Read("logs", logs, log_index)}))
    ELSE LET reads == {Read("logs", logs, log_index), Read("models", models, model_index)}
             converts == ~IsPetriNetTuple(PyGet(models, model_index))
         IN  IF converts /\ "convert" \in R
             THEN Ret(Cur, Caught("Error computing custom alignment", reads, TRUE, FALSE))
             ELSE IF "template" \in R
             THEN Ret(Cur, Caught("Error computing custom alignment", reads, converts, FALSE))
             ELSE IF "align" \in R
             THEN Ret(Cur, Caught("Error computing custom alignment", reads, TRUE, FALSE))
             ELSE IF "empty" \in R
             THEN Ret(Cur, Error("Failed to compute alignment", reads, TRUE, FALSE))
             ELSE Ret(Cur, Success("Custom alignment computed successfully", reads, TRUE, FALSE))

conformance_model_model_steps == {"convert", "footprints", "render"}

conformance_model_model(model_index_1, model_index_2, R, seen) ==
    IF InvalidIndex(model_index_1, seen.models)
    THEN Ret(Cur, Error("Invalid first model index", {}, FALSE, FALSE))
    ELSE IF InvalidIndex(model_index_2, seen.models)
    THEN Ret(Cur, Error("Invalid second model index", {}, FALSE, FALSE))
    ELSE IF ~PyInRange(models, model_index_1)
    THEN Ret(Cur, IndexError("Error in model-model conformance checking", {}))
    ELSE IF ~PyInRange(models, model_index_2)
    THEN Ret(Cur, IndexError("Error in model-model conformance checking",
                         {Read("models", models, model_index_1)}))
    ELSE LET reads == {Read("models", models, model_index_1), Read("models", models, model_index_2)}
             converts == ~IsPetriNetTuple(PyGet(models, model_index_1))
                         \/ ~IsPetriNetTuple(PyGet(models, model_index_2))
         IN  IF converts /\ "convert" \in R
             THEN Ret(Cur, Caught("Error in model-model conformance checking", reads, TRUE, FALSE))
             ELSE Ret(Cur, Compute(R, {"footprints"}, {"render"}, reads,
                                   "Error in model-model conformance checking",
                                   "Model-Model conformance checking completed"))

\* ------------------------------------------------------------------ routers/ocpm_exploration.py

update_ocel_event_distribution_steps == {"flatten", "render", "svg"}

\* data.get('ocel_index') is None when the JSON body has no such key, and the
\* comparison None < 0 of the validation raises.
update_ocel_event_distribution(has_index, ocel_index, distr_type, R, seen) ==
    IF ~has_index
    THEN Ret(Cur, TypeError("Error updating event distribution graph"))
    ELSE IF InvalidIndex(ocel_index, seen.ocels)
    THEN Ret(Cur, Error("Invalid OCEL index", {}, FALSE, FALSE))
    ELSE IF ~PyInRange(ocels, ocel_index)
    THEN Ret(Cur, IndexError("Error updating event distribution graph", {}))
    ELSE IF "flatten" \in R
    THEN Ret(Cur, Caught("Error updating event distribution graph",
                         {Read("ocels", ocels, ocel_index)}, TRUE, FALSE))
    ELSE IF distr_type \notin valid_types
    THEN Ret(Cur, Error("Invalid distribution type. Must be one of",
                        {Read("ocels", ocels, ocel_index)}, TRUE, FALSE))
    ELSE Ret(Cur, Compute(R, {"render"}, {"svg"}, {Read("ocels", ocels, ocel_index)},
                          "Error updating event distribution graph",
                          "Event distribution graph updated with type"))

\* "object_graph", "table" and "object_type" raise inside inner try blocks whose
\* except clauses go on with a fallback value; "insights" raises inside
\* get_log_insights, called for the flattened log of an object type.
explore_ocel_steps ==
    {"discover", "render", "object_graph", "stats", "table", "object_type", "insights"}

explore_ocel(ocel_index, R, seen) ==
    IF InvalidIndex(ocel_index, seen.ocels)
    THEN Ret(Cur, Error("Invalid OCEL index", {}, FALSE, FALSE))
    ELSE IF ~PyInRange(ocels, ocel_index)
    THEN Ret(Cur, IndexError("Error exploring OCEL", {}))
    ELSE Ret(Cur, insights(Absorbed(Compute(R, {"discover"}, {"render", "stats"},
                                            {Read("ocels", ocels, ocel_index)},
                                            "Error exploring OCEL",
                                            "OCEL exploration completed successfully"),
                                    IF R \cap {"discover", "render"} # {} THEN {}
                                    ELSE IF "stats" \in R THEN R \cap {"object_graph"}
                                    ELSE R \cap {"object_graph", "table", "object_type"}),
                           R))

\* ------------------------------------------------------------------ routers/ocpm_discovery.py

discover_ocpm_steps == {"discover", "render"}

discover_ocpm(failed, done, ocel_index, R, seen) ==
    IF InvalidIndex(ocel_index, seen.ocels)
    THEN Ret(Cur, Error("Invalid OCEL index", {}, FALSE, FALSE))
    ELSE IF ~PyInRange(ocels, ocel_index)
    THEN Ret(Cur, IndexError(failed, {}))
    ELSE Ret(Cur, Compute(R, {"discover"}, {"render"}, {Read("ocels", ocels, ocel_index)},
                          failed,
                          done))

discover_ocpm_im(ocel_index, R, seen) ==
    discover_ocpm("Error in OCPM IM discovery", "OCPM IM algorithm discovery completed",
                  ocel_index, R, seen)

discover_ocpm_imd(ocel_index, R, seen) ==
    discover_ocpm("Error in OCPM IMD discovery", "OCPM IMD algorithm discovery completed",
                  ocel_index, R, seen)

\* ------------------------------------------------------------------ the server

\* One request handled from its first to its last statement: the global state
\* becomes what the handler left and the returned object is on its way to the client.
Call(ep, i1, i2, R, r) ==
    /\ last = NoLast
    /\ \E res \in {r} :
          /\ res.st.clock <= MaxClock
          /\ logs' = res.st.logs
          /\ models' = res.st.models
          /\ ocels' = res.st.ocels
          /\ model' = res.st.model
          /\ clock' = res.st.clock
          /\ last' = [ep |-> ep, i1 |-> i1, i2 |-> i2, R |-> R, before |-> Cur,
                      out |-> res.out]
    /\ UNCHANGED <<arg, ret>>

\* The framework sends the returned object and the worker takes the next request.
Respond ==
    /\ last # NoLast
    /\ last' = NoLast
    /\ UNCHANGED <<logs, models, ocels, model, clock, arg, ret>>

Init ==
    /\ logs = <<>>
    /\ models = <<>>
    /\ ocels = <<>>
    /\ model = None
    /\ clock = 0
    /\ last = NoLast
    /\ view = <<>>
    /\ stale = NoStale
    /\ pc = [c \in Clients |-> "idle"]
    /\ req = [c \in Clients |-> NoRequest]
    /\ running = NoClient
    /\ arg = NoArg
    /\ ret = NoRet

\* Spec handles one request at a time: its clients and coroutines stay as they are.
OneAtATime == UNCHANGED <<view, stale, pc, req, running>>

UploadLog ==
    \E f \in FileNames, R \in RaiseSets(upload_log_steps) :
        /\ Call("upload_log", 0, 0, R, upload_log(f, R))
        /\ OneAtATime

UploadModel ==
    \E f \in FileNames, R \in RaiseSets(upload_model_steps) :
        /\ Call("upload_model", 0, 0, R, upload_model(f, R))
        /\ OneAtATime

UploadOcel ==
    \E f \in FileNames, R \in RaiseSets(upload_ocel_steps) :
        /\ Call("upload_ocel", 0, 0, R, upload_ocel(f, R))
        /\ OneAtATime

GetLogs ==
    /\ Call("get_logs", 0, 0, {}, get_logs)
    /\ OneAtATime

GetModels ==
    /\ Call("get_models", 0, 0, {}, get_models)
    /\ OneAtATime

GetOcels ==
    /\ Call("get_ocels", 0, 0, {}, get_ocels)
    /\ OneAtATime

DeleteLog ==
    \E i \in Indices :
        /\ Call("delete_log", i, 0, {}, delete_log(i, Lens))
        /\ OneAtATime

DeleteModel ==
    \E i \in Indices :
        /\ Call("delete_model", i, 0, {}, delete_model(i, Lens))
        /\ OneAtATime

DeleteOcel ==
    \E i \in Indices :
        /\ Call("delete_ocel", i, 0, {}, delete_ocel(i, Lens))
        /\ OneAtATime

Explore ==
    \E i \in Indices, R \in RaiseSets(explore_steps) :
        /\ Call("explore", i, 0, R, explore(i, R, Lens))
        /\ OneAtATime

UpdateDfg ==
    \E i \in Indices, sel \in FilterInputs, R \in RaiseSets(update_dfg_steps) :
        /\ Call("update_dfg", i, 0, R, update_dfg(i, sel, R, Lens))
        /\ OneAtATime

UpdateEventDistributionGraph ==
    \E i \in Indices, d \in DistrInputs, R \in RaiseSets(update_event_distribution_graph_steps) :
        /\ Call("update_event_distribution_graph", i, 0, R,
               update_event_distribution_graph(i, d, R, Lens))
        /\ OneAtATime

DiscoverAlpha ==
    \E i \in Indices, R \in RaiseSets(discover_steps), m \in MetricInputs :
        /\ Call("discover_alpha", i, 0, R, discover_alpha(i, R, m, Lens))
        /\ OneAtATime

DiscoverIlp ==
    \E i \in Indices, R \in RaiseSets(discover_steps), m \in MetricInputs :
        /\ Call("discover_ilp", i, 0, R, discover_ilp(i, R, m, Lens))
        /\ OneAtATime

DiscoverHeuristics ==
    \E i \in Indices, R \in RaiseSets(discover_steps), m \in MetricInputs :
        /\ Call("discover_heuristics", i, 0, R, discover_heuristics(i, R, m, Lens))
        /\ OneAtATime

DiscoverInductive ==
    \E i \in Indices, R \in RaiseSets(discover_steps), m \in MetricInputs :
        /\ Call("discover_inductive", i, 0, R, discover_inductive(i, R, m, Lens))
        /\ OneAtATime

ConformanceLogLog ==
    \E i, j \in Indices, R \in RaiseSets(conformance_log_log_steps) :
        /\ Call("conformance_log_log", i, j, R, conformance_log_log(i, j, R, Lens))
        /\ OneAtATime

ConformanceLogModel ==
    \E i, j \in Indices, R \in RaiseSets(conformance_log_model_steps), m \in MetricInputs :
        /\ Call("conformance_log_model", i, j, R, conformance_log_model(i, j, R, m, Lens))
        /\ OneAtATime

ComputeCustomAlignment ==
    \E i, j \in Indices, t \in TraceInputs, R \in RaiseSets(compute_custom_alignment_steps) :
        /\ Call("compute_custom_alignment", i, j, R, compute_custom_alignment(i, j, t, R, Lens))
        /\ OneAtATime

ConformanceModelModel ==
    \E i, j \in Indices, R \in RaiseSets(conformance_model_model_steps) :
        /\ Call("conformance_model_model", i, j, R, conformance_model_model(i, j, R, Lens))
        /\ OneAtATime

UpdateOcelEventDistribution ==
    \E h \in BOOLEAN : \E i \in IF h THEN Indices ELSE {0}, d \in DistrInputs,
            R \in RaiseSets(update_ocel_event_distribution_steps) :
        /\ Call("update_ocel_event_distribution", i, 0, R,
               update_ocel_event_distribution(h, i, d, R, Lens))
        /\ OneAtATime

ExploreOcel ==
    \E i \in Indices, R \in RaiseSets(explore_ocel_steps) :
        /\ Call("explore_ocel", i, 0, R, explore_ocel(i, R, Lens))
        /\ OneAtATime

DiscoverOcpmIm ==
    \E i \in Indices, R \in RaiseSets(discover_ocpm_steps) :
        /\ Call("discover_ocpm_im", i, 0, R, discover_ocpm_im(i, R, Lens))
        /\ OneAtATime

DiscoverOcpmImd ==
    \E i \in Indices, R \in RaiseSets(discover_ocpm_steps) :
        /\ Call("discover_ocpm_imd", i, 0, R, discover_ocpm_imd(i, R, Lens))
        /\ OneAtATime

RespondNext ==
    /\ Respond
    /\ OneAtATime

Next ==
    \/ UploadLog
    \/ UploadModel
    \/ UploadOcel
    \/ GetLogs
    \/ GetModels
    \/ GetOcels
    \/ DeleteLog
    \/ DeleteModel
    \/ DeleteOcel
    \/ Explore
    \/ UpdateDfg
    \/ UpdateEventDistributionGraph
    \/ DiscoverAlpha
    \/ DiscoverIlp
    \/ DiscoverHeuristics
    \/ DiscoverInductive
    \/ ConformanceLogLog
    \/ ConformanceLogModel
    \/ ComputeCustomAlignment
    \/ ConformanceModelModel
    \/ UpdateOcelEventDistribution
    \/ ExploreOcel
    \/ DiscoverOcpmIm
    \/ DiscoverOcpmImd
    \/ RespondNext

Spec == Init /\ [][Next]_vars

\* ------------------------------------------------------------------ two clients

Min(a, b) == IF a < b THEN a ELSE b

\* Client c lists the logs; what client "A" is shown is remembered.
RaceList(c) ==
    /\ Call("get_logs", 0, 0, {}, get_logs)
    /\ running' = c
    /\ IF c = "A"
       THEN view' = get_logs.out.listing /\ stale' = NoStale
       ELSE UNCHANGED <<view, stale>>
    /\ UNCHANGED <<pc, req>>

RaceUpload(c) ==
    /\ \E f \in FileNames, R \in RaiseSets(upload_log_steps) :
          Call("upload_log", 0, 0, R, upload_log(f, R))
    /\ running' = c
    /\ UNCHANGED <<view, stale, pc, req>>

\* Client c deletes a log; a delete by the other client since the listing of "A"
\* is remembered by the smallest index it removed.
RaceDelete(c) ==
    /\ \E j \in Indices :
          /\ Call("delete_log", j, 0, {}, delete_log(j, Lens))
          /\ stale' = IF c # "A" /\ len(delete_log(j, Lens).st.logs) < len(logs)
                      THEN Min(stale, j)
                      ELSE stale
    /\ running' = c
    /\ UNCHANGED <<view, pc, req>>

RaceExplore(c) ==
    /\ \E i \in Indices, R \in RaiseSets(explore_steps) :
          Call("explore", i, 0, R, explore(i, R, Lens))
    /\ running' = c
    /\ UNCHANGED <<view, stale, pc, req>>

\* The response is sent; a request of "A" that was not a listing has used up
\* what "A" was shown.
RaceRespond ==
    /\ Respond
    /\ IF running = "A" /\ last.ep # "get_logs"
       THEN view' = <<>> /\ stale' = NoStale
       ELSE UNCHANGED <<view, stale>>
    /\ UNCHANGED <<pc, req, running>>

NextRace ==
    \/ \E c \in Clients : RaceList(c)
    \/ \E c \in Clients : RaceUpload(c)
    \/ \E c \in Clients : RaceDelete(c)
    \/ \E c \in Clients : RaceExplore(c)
    \/ RaceRespond

SpecRace == Init /\ [][NextRace]_vars

\* ------------------------------------------------------------------ the event loop

\* Faulty variant of SuspensionPoint: every handler also awaits between its index
\* validation and its body.
SuspensionPointEverywhere(p) == p \in {"reading", "validated"}

\* The positions of a handler coroutine at which it awaits, so that the event
\* loop may run another coroutine: "reading" is `await file.read()` of the upload
\* handlers, the only await of the routers; "validated" is the point between the
\* index validation and the body of the other handlers.
SuspensionPoint(p) == p = "reading"

\* The handler of a request, run from where the coroutine stands to its return.
Handle(rq, m) ==
    CASE rq.ep = "upload_log" -> upload_log(rq.f, rq.R)
      [] rq.ep = "upload_model" -> upload_model(rq.f, rq.R)
      [] rq.ep = "delete_log" -> delete_log(rq.i1, rq.seen)
      [] rq.ep = "delete_model" -> delete_model(rq.i1, rq.seen)
      [] rq.ep = "explore" -> explore(rq.i1, rq.R, rq.seen)
      [] rq.ep = "conformance_model_model" -> conformance_model_model(rq.i1, rq.i2, rq.R, rq.seen)
      [] rq.ep = "discover_inductive" -> discover_inductive(rq.i1, rq.R, m, rq.seen)

\* The list an index argument of the request is validated against.
ListOf(ep) == IF ep \in {"delete_model", "conformance_model_model"} THEN "models" ELSE "logs"

\* The coroutine of an upload request starts and runs up to its await.
StartUpload(c) ==
    /\ last = NoLast
    /\ running = NoClient
    /\ pc[c] = "idle"
    /\ \E ep \in {"upload_log", "upload_model"}, f \in FileNames :
          req' = [req EXCEPT ![c] = [ep |-> ep, i1 |-> 0, i2 |-> 0, f |-> f, R |-> {},
                                     seen |-> Lens]]
    /\ pc' = [pc EXCEPT ![c] = "reading"]
    /\ running' = IF SuspensionPoint("reading") THEN NoClient ELSE c
    /\ UNCHANGED <<logs, models, ocels, model, clock, last, view, stale, arg, ret>>

\* The coroutine of a request with index arguments starts and validates them
\* against the lengths of the lists as they are now.
StartIndexed(c) ==
    /\ last = NoLast
    /\ running = NoClient
    /\ pc[c] = "idle"
    /\ \/ \E ep \in {"delete_log", "delete_model", "explore", "discover_inductive"},
             i \in Indices :
             req' = [req EXCEPT ![c] = [ep |-> ep, i1 |-> i, i2 |-> 0, f |-> "", R |-> {},
                                        seen |-> Lens]]
       \/ \E i, j \in Indices :
             req' = [req EXCEPT ![c] = [ep |-> "conformance_model_model", i1 |-> i, i2 |-> j,
                                        f |-> "", R |-> {}, seen |-> Lens]]
    /\ pc' = [pc EXCEPT ![c] = "validated"]
    /\ running' = IF SuspensionPoint("validated") THEN NoClient ELSE c
    /\ UNCHANGED <<logs, models, ocels, model, clock, last, view, stale, arg, ret>>

\* The coroutine goes on, when it holds the thread or the event loop resumes it,
\* and runs to its return.
Continue(c) ==
    /\ pc[c] \in {"reading", "validated"}
    /\ running \in {c, NoClient}
    /\ \E m \in IF req[c].ep = "discover_inductive" THEN MetricInputs ELSE {NoMetrics} :
          Call(req[c].ep, req[c].i1, req[c].i2, req[c].R, Handle(req[c], m))
    /\ pc' = [pc EXCEPT ![c] = "idle"]
    /\ req' = [req EXCEPT ![c] = NoRequest]
    /\ running' = NoClient
    /\ UNCHANGED <<view, stale>>

LoopRespond ==
    /\ Respond
    /\ UNCHANGED <<view, stale, pc, req, running>>

NextLoop ==
    \/ \E c \in Clients : StartUpload(c)
    \/ \E c \in Clients : StartIndexed(c)
    \/ \E c \in Clients : Continue(c)
    \/ LoopRespond

SpecLoop == Init /\ [][NextLoop]_vars

\* ------------------------------------------------------------------ utils/helpers.py: footprints

\* The activities of the logs and nets, numbered in the alphabetical order of
\* their names.
Activities == {1, 2}

Pairs == Activities \X Activities

FootprintKeys == {"activities", "sequence", "parallel"}

\* A Python value None.
NoneValue == [NoneType |-> TRUE]

\* The number of variants conformance_log_model reports, the most frequent ones.
TopVariants == 20

\* d.get(key, default)
get(d, key, default) == IF key \in DOMAIN d THEN d[key] ELSE default

\* The dict d with only the keys K.
Restrict(d, K) == [k \in K |-> d[k]]

\* The sets of at most MaxPairs pairs.
Relations == {r \in SUBSET Pairs : Cardinality(r) <= MaxPairs}

\* Footprint dicts of any content: any set of activities, any two sets of pairs
\* over Activities (also pairs of activities the dict does not list), any of the
\* three keys missing.
Footprints ==
    {Restrict(fp, K) :
        fp \in [activities : SUBSET Activities, sequence : Relations, parallel : Relations],
        K \in SUBSET FootprintKeys}

\* pm4py.discover_footprints as the handlers call it: of the directly-follows
\* pairs dfg over the activities acts, a pair whose reverse also follows is
\* parallel, a pair whose reverse does not follow is a sequence.
discover_footprints(acts, dfg) ==
    [activities |-> acts,
     sequence |-> {p \in dfg : <<p[2], p[1]>> \notin dfg},
     parallel |-> {p \in dfg : <<p[2], p[1]>> \in dfg}]

\* The footprints of the logs and nets over Activities.
DiscoveredFootprints ==
    UNION {{discover_footprints(acts, dfg) : dfg \in SUBSET (acts \X acts)} :
              acts \in SUBSET Activities}

\* sorted(list(s))
RECURSIVE sorted(_)
sorted(s) ==
    IF s = {} THEN <<>>
    ELSE LET m == CHOOSE x \in s : \A y \in s : x <= y
         IN  <<m>> \o sorted(s \ {m})

\* {act: i for i, act in enumerate(activities)}
act_to_idx(activities) ==
    [act \in {activities[i] : i \in DOMAIN activities} |->
        CHOOSE i \in DOMAIN activities : activities[i] = act]

\* [['' for _ in range(n)] for _ in range(n)]
EmptyMatrix(n) == [i \in 1 .. n |-> [j \in 1 .. n |-> ""]]

\* for (a1, a2) in pairs:
\*     if a1 in act_to_idx and a2 in act_to_idx:
\*         matrix[act_to_idx[a1]][act_to_idx[a2]] = symbol
Fill(matrix, idx, pairs, symbol) ==
    [i \in DOMAIN matrix |->
        [j \in DOMAIN matrix[i] |->
            IF \E p \in pairs : /\ p[1] \in DOMAIN idx
                                /\ p[2] \in DOMAIN idx
                                /\ idx[p[1]] = i
                                /\ idx[p[2]] = j
            THEN symbol
            ELSE matrix[i][j]]]

\* Faulty variant of footprint_to_matrix: the parallel relations are filled in
\* first and the sequence relations last.
footprint_to_matrix_sequence_last(fp) ==
    LET activities == sorted(get(fp, "activities", {}))
        idx == act_to_idx(activities)
    IN  [activities |-> activities,
         matrix |-> Fill(Fill(EmptyMatrix(Len(activities)), idx, get(fp, "parallel", {}), "||"),
                         idx, get(fp, "sequence", {}), "->")]

\* utils.helpers.footprint_to_matrix
footprint_to_matrix(fp) ==
    LET activities == sorted(get(fp, "activities", {}))
        idx == act_to_idx(activities)
    IN  [activities |-> activities,
         matrix |-> Fill(Fill(EmptyMatrix(Len(activities)), idx, get(fp, "sequence", {}), "->"),
                         idx, get(fp, "parallel", {}), "||")]

\* set.symmetric_difference
symmetric_difference(a, b) == (a \ b) \cup (b \ a)

\* Faulty variant of count_footprint_differences: set differences in place of
\* the symmetric differences.
count_footprint_differences_one_sided(fp1, fp2) ==
    Cardinality(get(fp1, "sequence", {}) \ get(fp2, "sequence", {}))
        + Cardinality(get(fp1, "parallel", {}) \ get(fp2, "parallel", {}))

\* utils.helpers.count_footprint_differences
count_footprint_differences(fp1, fp2) ==
    Cardinality(symmetric_difference(get(fp1, "sequence", {}), get(fp2, "sequence", {})))
        + Cardinality(symmetric_difference(get(fp1, "parallel", {}), get(fp2, "parallel", {})))

\* ------------------------------------------------------------------ routers/conformance.py: footprints

\* The float n / d, d > 0, kept as a fraction.
Ratio(n, d) == [num |-> n, den |-> d]

\* max(a, b)
max(a, b) == IF a > b THEN a ELSE b

\* Faulty variant of footprint_conformance: 1.0 when there are no cells.
footprint_conformance_empty_is_one(num_different_cells, total_cells) ==
    IF total_cells > 0
    THEN Ratio(total_cells - num_different_cells, total_cells)
    ELSE Ratio(1, 1)

\* 1.0 - (num_different_cells / total_cells) if total_cells > 0 else 0.0
footprint_conformance(num_different_cells, total_cells) ==
    IF total_cells > 0
    THEN Ratio(total_cells - num_different_cells, total_cells)
    ELSE Ratio(0, 1)

\* conformance_log_log from the two footprints on (lines 40-49).
conformance_log_log_footprints(footprints1, footprints2) ==
    LET footprint1_matrix == footprint_to_matrix(footprints1)
        footprint2_matrix == footprint_to_matrix(footprints2)
        num_different_cells == count_footprint_differences(footprints1, footprints2)
        num_activities == max(Len(footprint1_matrix.activities), Len(footprint2_matrix.activities))
        total_cells == num_activities * num_activities
    IN  [footprint1_matrix |-> footprint1_matrix,
         footprint2_matrix |-> footprint2_matrix,
         num_different_cells |-> num_different_cells,
         footprint_conformance |-> footprint_conformance(num_different_cells, total_cells)]

\* conformance_log_model from the two footprints on (lines 130-134, 255-257):
\* the cells are those of the model's matrix.
conformance_log_model_footprints(log_footprints, model_footprints) ==
    LET log_footprint_matrix == footprint_to_matrix(log_footprints)
        model_footprint_matrix == footprint_to_matrix(model_footprints)
        num_different_cells == count_footprint_differences(log_footprints, model_footprints)
        num_activities == Len(model_footprint_matrix.activities)
        total_cells == num_activities * num_activities
    IN  [footprint1_matrix |-> log_footprint_matrix,
         footprint2_matrix |-> model_footprint_matrix,
         num_different_cells |-> num_different_cells,
         footprint_conformance |-> footprint_conformance(num_different_cells, total_cells)]

\* conformance_model_model from the two footprints on (lines 426-435).
conformance_model_model_footprints(footprints1, footprints2) ==
    LET footprint1_matrix == footprint_to_matrix(footprints1)
        footprint2_matrix == footprint_to_matrix(footprints2)
        num_different_cells == count_footprint_differences(footprints1, footprints2)
        num_activities == max(Len(footprint1_matrix.activities), Len(footprint2_matrix.activities))
        total_cells == num_activities * num_activities
    IN  [footprint1_matrix |-> footprint1_matrix,
         footprint2_matrix |-> footprint2_matrix,
         num_different_cells |-> num_different_cells,
         footprint_conformance |-> footprint_conformance(num_different_cells, total_cells)]

\* ------------------------------------------------------------------ api.py: nested copies

\* explore's nested footprint_to_matrix (api.py lines 532-556).
explore_footprint_to_matrix(fp) ==
    LET activities == sorted(get(fp, "activities", {}))
        idx == act_to_idx(activities)
    IN  [activities |-> activities,
         matrix |-> Fill(Fill(EmptyMatrix(Len(activities)), idx, get(fp, "sequence", {}), "->"),
                         idx, get(fp, "parallel", {}), "||")]

\* conformance_log_log's nested footprint_to_matrix (api.py lines 1169-1193): its
\* return statement is indented into the body of the loop over the parallel
\* pairs.  The function returns at the end of that loop's first iteration, with
\* only the pair `first` the set iteration yielded first filled in, and falls off
\* its end, returning None, when there is no parallel pair.
log_log_footprint_to_matrix(fp, first) ==
    LET activities == sorted(get(fp, "activities", {}))
        idx == act_to_idx(activities)
    IN  IF get(fp, "parallel", {}) = {}
        THEN NoneValue
        ELSE [activities |-> activities,
              matrix |-> Fill(Fill(EmptyMatrix(Len(activities)), idx, get(fp, "sequence", {}), "->"),
                              idx, {first}, "||")]

\* conformance_log_model's nested footprint_to_matrix (api.py lines 1300-1324).
log_model_footprint_to_matrix(fp) ==
    LET activities == sorted(get(fp, "activities", {}))
        idx == act_to_idx(activities)
    IN  [activities |-> activities,
         matrix |-> Fill(Fill(EmptyMatrix(Len(activities)), idx, get(fp, "sequence", {}), "->"),
                         idx, get(fp, "parallel", {}), "||")]

\* conformance_model_model's nested footprint_to_matrix (api.py lines 1639-1665).
model_model_footprint_to_matrix(fp) ==
    LET activities == sorted(get(fp, "activities", {}))
        idx == act_to_idx(activities)
    IN  [activities |-> activities,
         matrix |-> Fill(Fill(EmptyMatrix(Len(activities)), idx, get(fp, "sequence", {}), "->"),
                         idx, get(fp, "parallel", {}), "||")]

\* ------------------------------------------------------------------ the helpers applied

\* The helpers are applied to the footprints of two stored artifacts; the server
\* state plays no part.
ServerIdle == UNCHANGED <<logs, models, ocels, model, clock, last, view, stale, pc, req, running>>

\* A helper is applied once to the footprints under study, which stay as they are.
OnFootprints ==
    /\ arg.kind = "footprints"
    /\ ret = NoRet
    /\ arg' = arg
    /\ ServerIdle

FootprintToMatrix ==
    /\ OnFootprints
    /\ ret' = [op |-> "footprint_to_matrix", value |-> footprint_to_matrix(arg.fp1)]

\* The four nested copies of api.py and the helper of utils, applied to the same
\* footprint; the iteration of the parallel set starts at any of its pairs.
ApiFootprintToMatrix ==
    \E first \in IF get(arg.fp1, "parallel", {}) = {} THEN {<<0, 0>>}
                  ELSE get(arg.fp1, "parallel", {}) :
        /\ OnFootprints
        /\ ret' = [op |-> "api.footprint_to_matrix",
                   helpers |-> footprint_to_matrix(arg.fp1),
                   explore |-> explore_footprint_to_matrix(arg.fp1),
                   log_log |-> log_log_footprint_to_matrix(arg.fp1, first),
                   log_model |-> log_model_footprint_to_matrix(arg.fp1),
                   model_model |-> model_model_footprint_to_matrix(arg.fp1)]

\* count_footprint_differences of the two footprints, in both orders.
CountFootprintDifferences ==
    /\ OnFootprints
    /\ ret' = [op |-> "count_footprint_differences",
               value |-> count_footprint_differences(arg.fp1, arg.fp2),
               swapped |-> count_footprint_differences(arg.fp2, arg.fp1)]

\* conformance_log_log(i, j) and conformance_log_log(j, i) of two stored logs.
CompareLogLog ==
    /\ OnFootprints
    /\ ret' = [op |-> "conformance_log_log",
               out |-> conformance_log_log_footprints(arg.fp1, arg.fp2),
               swapped |-> conformance_log_log_footprints(arg.fp2, arg.fp1)]

\* conformance_log_model(i, j) of a stored log and a stored model.
CompareLogModel ==
    /\ OnFootprints
    /\ ret' = [op |-> "conformance_log_model",
               out |-> conformance_log_model_footprints(arg.fp1, arg.fp2)]

\* conformance_model_model(i, j) and conformance_model_model(j, i).
CompareModelModel ==
    /\ OnFootprints
    /\ ret' = [op |-> "conformance_model_model",
               out |-> conformance_model_model_footprints(arg.fp1, arg.fp2),
               swapped |-> conformance_model_model_footprints(arg.fp2, arg.fp1)]

\* conformance_log_log(i, i) and conformance_model_model(i, i): both index
\* arguments name the same stored artifact, whose footprints are discovered twice.
CompareWithItself ==
    \/ /\ OnFootprints
       /\ ret' = [op |-> "self", ep |-> "conformance_log_log",
                  out |-> conformance_log_log_footprints(arg.fp1, arg.fp1)]
    \/ /\ OnFootprints
       /\ ret' = [op |-> "self", ep |-> "conformance_model_model",
                  out |-> conformance_model_model_footprints(arg.fp1, arg.fp1)]

InitFootprint ==
    /\ logs = <<>>
    /\ models = <<>>
    /\ ocels = <<>>
    /\ model = None
    /\ clock = 0
    /\ last = NoLast
    /\ view = <<>>
    /\ stale = NoStale
    /\ pc = [c \in Clients |-> "idle"]
    /\ req = [c \in Clients |-> NoRequest]
    /\ running = NoClient
    /\ arg \in {[kind |-> "footprints", fp1 |-> f1, fp2 |-> f2] :
                   f1 \in Footprints, f2 \in DiscoveredFootprints}
    /\ ret = NoRet

NextFootprint ==
    \/ FootprintToMatrix
    \/ ApiFootprintToMatrix
    \/ CountFootprintDifferences
    \/ CompareLogLog
    \/ CompareLogModel
    \/ CompareModelModel
    \/ CompareWithItself

SpecFootprint == InitFootprint /\ [][NextFootprint]_vars

\* ------------------------------------------------------------------ routers/conformance.py: variants

\* A variant is the tuple of the activities of a case: here one or two events.
Variants == {<<a>> : a \in Activities} \cup {<<a, b>> : a \in Activities, b \in Activities}

\* The event logs: the variants of the cases, in the order in which the cases
\* first appear in the DataFrame.
CaseLogs == UNION {[1 .. n -> Variants] : n \in 1 .. MaxCases}

\* The orders in which a dict with the keys s can list them.
KeyOrders(s) == {o \in [1 .. Cardinality(s) -> s] : {o[i] : i \in DOMAIN o} = s}

\* pm4py.get_variants(log): the number of cases of every variant of the log.
get_variants(cases) ==
    [v \in {cases[i] : i \in DOMAIN cases} |-> Cardinality({i \in DOMAIN cases : cases[i] = v})]

\* sorted(items, key=lambda x: x[1], reverse=True): a stable sort of the keys in
\* dict order by descending count.
RECURSIVE sorted_by_count(_, _)
sorted_by_count(order, variants) ==
    IF order = <<>> THEN <<>>
    ELSE LET init == sorted_by_count(SubSeq(order, 1, Len(order) - 1), variants)
             x == order[Len(order)]
             k == Cardinality({i \in DOMAIN init : variants[init[i]] >= variants[x]})
         IN  SubSeq(init, 1, k) \o <<x>> \o SubSeq(init, k + 1, Len(init))

\* sorted(variants.items(), ...)[:20]
sorted_variants(order, variants) ==
    LET all == sorted_by_count(order, variants)
    IN  SubSeq(all, 1, IF Len(all) < TopVariants THEN Len(all) ELSE TopVariants)

\* The loop over log.groupby('case:concept:name', sort=False): the first case of
\* every variant, in the order of the cases.
RECURSIVE variant_traces(_)
variant_traces(cases) ==
    IF cases = <<>> THEN <<>>
    ELSE LET init == variant_traces(SubSeq(cases, 1, Len(cases) - 1))
             v == cases[Len(cases)]
         IN  IF \E i \in DOMAIN init : init[i] = v THEN init ELSE Append(init, v)

\* The diagnostics of the library for the traces of variant_log, one per trace
\* and in the order of the traces: each is marked with the trace it is about.
diagnostics(variant_log) == [i \in DOMAIN variant_log |-> [of |-> variant_log[i]]]

\* for idx, (variant, count) in enumerate(sorted_variants):
\*     if idx < len(results):
\*         data.append({'variant': ..., 'frequency': count, ...results[idx]...})
per_variant_data(top, variants, results) ==
    [idx \in 1 .. (IF Len(top) < Len(results) THEN Len(top) ELSE Len(results)) |->
        [variant |-> top[idx], frequency |-> variants[top[idx]],
         result |-> results[idx]]]

\* The steps of the two inner try blocks that can raise: the construction of
\* variant_log and the two diagnostics calls of the library.
variant_steps == {"variant_log", "alignments", "tbr"}

\* alignment_data and tbr_data of conformance_log_model (lines 165-232).  When
\* the first try raises before variant_log is bound, the second try ends in a
\* NameError and tbr_data is empty as well.
variant_diagnostics(cases, order, R) ==
    LET variants == get_variants(cases)
        variant_log == variant_traces(cases)
        top == sorted_variants(order, variants)
    IN  [alignment_data |->
             IF R \cap {"variant_log", "alignments"} # {} THEN <<>>
             ELSE per_variant_data(top, variants, diagnostics(variant_log)),
         tbr_data |->
             IF R \cap {"variant_log", "tbr"} # {} THEN <<>>
             ELSE per_variant_data(top, variants, diagnostics(variant_log))]

VariantDiagnostics ==
    /\ arg.kind = "log"
    /\ ret = NoRet
    /\ \E order \in KeyOrders(DOMAIN get_variants(arg.cases)), R \in SUBSET variant_steps :
          ret' = [op |-> "variant_diagnostics", order |-> order, R |-> R,
                  out |-> variant_diagnostics(arg.cases, order, R)]
    /\ arg' = arg
    /\ ServerIdle

InitVariants ==
    /\ logs = <<>>
    /\ models = <<>>
    /\ ocels = <<>>
    /\ model = None
    /\ clock = 0
    /\ last = NoLast
    /\ view = <<>>
    /\ stale = NoStale
    /\ pc = [c \in Clients |-> "idle"]
    /\ req = [c \in Clients |-> NoRequest]
    /\ running = NoClient
    /\ arg \in {[kind |-> "log", cases |-> cases] : cases \in CaseLogs}
    /\ ret = NoRet

NextVariants ==
    \/ VariantDiagnostics

SpecVariants == InitVariants /\ [][NextVariants]_vars

\* ------------------------------------------------------------------ routers/exploration.py: available_variants

MaxVariants == 21  \* variants of the log explore lists the variants of
MaxCount == 2      \* cases of the most frequent variant of that log

\* The number of variants explore puts into available_variants.
AvailableVariants == 20

\* The variant of a case with k events, of the activities 1, 2, 1, ...
Trace(k) == [i \in 1 .. k |-> IF i % 2 = 1 THEN 1 ELSE 2]

\* list(variants.items()) of pm4py.get_variants(event_log), in the order of the
\* dict: the logs with n variants of which the p-th has c cases and every other
\* one has a single case.
VariantItems ==
    {[k \in 1 .. n |-> <<Trace(k), IF k = p THEN c ELSE 1>>] :
        n \in 1 .. MaxVariants, p \in 1 .. MaxVariants, c \in 1 .. MaxCount}

\* isinstance(variant, tuple): the library's variants are tuples of activity names.
IsTuple(variant) == DOMAIN variant = 1 .. Len(variant)

\* variant_list of explore (lines 102-109): the first 20 items of the dict, the
\* tuples among them as {"activities": list(variant), "frequency": count}.
available_variants(items) ==
    LET first == SubSeq(items, 1, Min(Len(items), AvailableVariants))
        tuples == SelectSeq(first, LAMBDA item : IsTuple(item[1]))
    IN  [i \in DOMAIN tuples |-> [activities |-> tuples[i][1], frequency |-> tuples[i][2]]]

ExploreVariants ==
    /\ arg.kind = "variants"
    /\ ret = NoRet
    /\ ret' = [op |-> "available_variants", out |-> available_variants(arg.items)]
    /\ arg' = arg
    /\ ServerIdle

InitAvailable ==
    /\ logs = <<>>
    /\ models = <<>>
    /\ ocels = <<>>
    /\ model = None
    /\ clock = 0
    /\ last = NoLast
    /\ view = <<>>
    /\ stale = NoStale
    /\ pc = [c \in Clients |-> "idle"]
    /\ req = [c \in Clients |-> NoRequest]
    /\ running = NoClient
    /\ arg \in {[kind |-> "variants", items |-> items] : items \in VariantItems}
    /\ ret = NoRet

NextAvailable ==
    \/ ExploreVariants

SpecAvailable == InitAvailable /\ [][NextAvailable]_vars

\* ------------------------------------------------------------------ utils/helpers.py: get_log_insights

MaxDuration == 2   \* seconds from the first to the last event of a case

Durations == 1 .. MaxDuration

\* The event logs get_log_insights is called with: the cases in the order in
\* which their ids first appear in the DataFrame, each with the tuple of its
\* activities and its duration.  The id of a case is its position.
EventLogs ==
    UNION {[1 .. n -> [variant : {<<1>>, <<2>>, <<1, 2>>}, duration : Durations]] :
              n \in 1 .. MaxCases}

\* The variants of the cases, case by case.
VariantsOf(cases) == [i \in DOMAIN cases |-> cases[i].variant]

\* sum(lst)
RECURSIVE sum(_)
sum(lst) == IF lst = <<>> THEN 0 ELSE lst[1] + sum(Tail(lst))

\* sorted(durations)
RECURSIVE sorted_durations(_)
sorted_durations(durations) ==
    IF durations = <<>> THEN <<>>
    ELSE LET init == sorted_durations(SubSeq(durations, 1, Len(durations) - 1))
             x == durations[Len(durations)]
             k == Cardinality({i \in DOMAIN init : init[i] <= x})
         IN  SubSeq(init, 1, k) \o <<x>> \o SubSeq(init, k + 1, Len(init))

\* pm4py.stats.get_all_case_durations(event_log): the durations of the cases as
\* a list.  The order of the list is the library's (the library sorts it:
\* sorted([x["caseDuration"] for x in cd.values()])); the helper is modelled for
\* every order of it.
get_all_case_durations(cases) ==
    {[i \in DOMAIN cases |-> cases[p[i]].duration] :
        p \in {q \in [DOMAIN cases -> DOMAIN cases] : {q[i] : i \in DOMAIN cases} = DOMAIN cases}}

\* round(x, 2) of the fraction n / d, as a number of hundredths.
round2(n, d) == (2 * 100 * n + d) \div (2 * d)

\* round(statistics.mean(d), 2), round(min(d), 2), round(max(d), 2) and
\* round(statistics.median(d), 2) in hundredths of a second; all 0 for no
\* durations.
tpt(durations) ==
    IF durations = <<>> THEN [avg_tpt |-> 0, min_tpt |-> 0, max_tpt |-> 0, median_tpt |-> 0]
    ELSE LET s == sorted_durations(durations)
             n == Len(s)
         IN  [avg_tpt |-> round2(sum(s), n),
              min_tpt |-> round2(s[1], 1),
              max_tpt |-> round2(s[n], 1),
              median_tpt |-> IF n % 2 = 1 THEN round2(s[(n + 1) \div 2], 1)
                             ELSE round2(s[n \div 2] + s[n \div 2 + 1], 2)]

\* The loop of lines 91-94: case_durations[i] for every position i of case_ids
\* whose case has the variant.
RECURSIVE variant_durations(_, _, _)
variant_durations(case_to_variant, case_durations, variant) ==
    IF case_durations = <<>> THEN <<>>
    ELSE LET i == Len(case_durations)
             init == variant_durations(case_to_variant, SubSeq(case_durations, 1, i - 1), variant)
         IN  IF case_to_variant[i] = variant THEN Append(init, case_durations[i]) ELSE init

\* Faulty variant of sort_by_frequency: entries of equal frequency end up in the
\* reverse of their order in the list.
RECURSIVE sort_by_frequency_unstable(_)
sort_by_frequency_unstable(trace_variants) ==
    IF trace_variants = <<>> THEN <<>>
    ELSE LET init == sort_by_frequency_unstable(SubSeq(trace_variants, 1, Len(trace_variants) - 1))
             x == trace_variants[Len(trace_variants)]
             k == Cardinality({i \in DOMAIN init : init[i].frequency > x.frequency})
         IN  SubSeq(init, 1, k) \o <<x>> \o SubSeq(init, k + 1, Len(init))

\* trace_variants.sort(key=lambda x: x['frequency'], reverse=True): a stable
\* sort, entries of equal frequency keep their order.
RECURSIVE sort_by_frequency(_)
sort_by_frequency(trace_variants) ==
    IF trace_variants = <<>> THEN <<>>
    ELSE LET init == sort_by_frequency(SubSeq(trace_variants, 1, Len(trace_variants) - 1))
             x == trace_variants[Len(trace_variants)]
             k == Cardinality({i \in DOMAIN init : init[i].frequency >= x.frequency})
         IN  SubSeq(init, 1, k) \o <<x>> \o SubSeq(init, k + 1, Len(init))

\* The calls inside the try block of get_log_insights that can raise: those of
\* the library and of pandas.
get_log_insights_steps == {"library"}

\* get_log_insights(event_log), where order is the order in which the dict of
\* pm4py.get_variants lists the variants and case_durations the list of
\* pm4py.stats.get_all_case_durations.  The logs have no start_timestamp
\* column.  Numbers that are rounded to two digits are in hundredths.
get_log_insights(cases, order, case_durations, R) ==
    IF R # {} THEN ZeroInsights
    ELSE
    LET activities == UNION {{cases[i].variant[j] : j \in DOMAIN cases[i].variant} : i \in DOMAIN cases}
        occurrences(a, i) == Cardinality({j \in DOMAIN cases[i].variant : cases[i].variant[j] = a})
        activity_frequencies ==
            [a \in activities |-> sum([i \in DOMAIN cases |-> occurrences(a, i)])]
        num_cases == Len(cases)
        variants == get_variants(VariantsOf(cases))
        case_to_variant == VariantsOf(cases)
        total_cases == num_cases
        entry(variant) ==
            LET stats == tpt(variant_durations(case_to_variant, case_durations, variant))
            IN  [activities |-> variant,
                 frequency |-> variants[variant],
                 percentage |-> round2(variants[variant] * 100, total_cases),
                 avg_tpt |-> stats.avg_tpt, min_tpt |-> stats.min_tpt,
                 max_tpt |-> stats.max_tpt, median_tpt |-> stats.median_tpt]
        log_tpt == tpt(case_durations)
    IN  [num_events |-> sum([i \in DOMAIN cases |-> Len(cases[i].variant)]),
         num_cases |-> num_cases,
         num_activities |-> Cardinality(activities),
         num_trace_variants |-> Cardinality(DOMAIN variants),
         activity_frequencies |-> activity_frequencies,
         activity_case_counts |->
             [a \in activities |-> Cardinality({i \in DOMAIN cases : occurrences(a, i) > 0})],
         activity_durations |->
             [a \in activities |-> [avg |-> 0, min |-> 0, max |-> 0, median |-> 0]],
         trace_variants |-> sort_by_frequency([k \in DOMAIN order |-> entry(order[k])]),
         start_activities |->
             [a \in {cases[i].variant[1] : i \in DOMAIN cases} |->
                 Cardinality({i \in DOMAIN cases : cases[i].variant[1] = a})],
         end_activities |->
             [a \in {cases[i].variant[Len(cases[i].variant)] : i \in DOMAIN cases} |->
                 Cardinality({i \in DOMAIN cases : cases[i].variant[Len(cases[i].variant)] = a})],
         log_avg_tpt |-> log_tpt.avg_tpt, log_min_tpt |-> log_tpt.min_tpt,
         log_max_tpt |-> log_tpt.max_tpt, log_median_tpt |-> log_tpt.median_tpt]

OnEvents ==
    /\ arg.kind = "events"
    /\ ret = NoRet
    /\ arg' = arg
    /\ ServerIdle

\* get_log_insights on a log, every call inside it returning.
GetLogInsights ==
    /\ OnEvents
    /\ \E order \in KeyOrders(DOMAIN get_variants(VariantsOf(arg.cases))),
          case_durations \in get_all_case_durations(arg.cases) :
          ret' = [op |-> "get_log_insights", R |-> {}, order |-> order,
                  case_durations |-> case_durations,
                  out |-> get_log_insights(arg.cases, order, case_durations, {})]

\* get_log_insights on a log, a call inside it raising.
GetLogInsightsRaised ==
    /\ OnEvents
    /\ \E R \in SUBSET get_log_insights_steps \ {{}} :
          ret' = [op |-> "get_log_insights", R |-> R,
                  out |-> get_log_insights(arg.cases, <<>>, <<>>, R)]

InitInsights ==
    /\ logs = <<>>
    /\ models = <<>>
    /\ ocels = <<>>
    /\ model = None
    /\ clock = 0
    /\ last = NoLast
    /\ view = <<>>
    /\ stale = NoStale
    /\ pc = [c \in Clients |-> "idle"]
    /\ req = [c \in Clients |-> NoRequest]
    /\ running = NoClient
    /\ arg \in {[kind |-> "events", cases |-> cases] : cases \in EventLogs}
    /\ ret = NoRet

NextInsights ==
    \/ GetLogInsights
    \/ GetLogInsightsRaised

SpecInsights == InitInsights /\ [][NextInsights]_vars

\* ------------------------------------------------------------------ routers/exploration.py: the filters of update_dfg

MaxTraces == 2     \* cases of the log update_dfg filters
MaxSelected == 2   \* variants in selected_variants

\* The logs update_dfg filters: the traces of the cases, in the order of the cases.
FilteredLogs == UNION {[1 .. n -> Variants] : n \in 1 .. MaxTraces}

\* json.loads(selected_activities): a list of activity names.
SelectedActivities == {<<>>, <<1>>, <<2>>, <<1, 2>>}

\* json.loads(selected_variants): a list of variants, each a list of activity names.
SelectedVariants == UNION {[1 .. n -> Variants] : n \in 0 .. MaxSelected}

\* The elements of a list.
Elements(lst) == {lst[i] : i \in DOMAIN lst}

\* pm4py.filter_event_attribute_values(log, 'concept:name', values, level='event'):
\* the events whose activity is among the values; a case none of whose events
\* is left is not in the result.
filter_event_attribute_values(log, values) ==
    SelectSeq([i \in DOMAIN log |-> SelectSeq(log[i], LAMBDA a : a \in Elements(values))],
              LAMBDA trace : trace # <<>>)

\* pm4py.filter_variants(log, variants): the cases whose variant is among the variants.
filter_variants(log, variants) == SelectSeq(log, LAMBDA trace : trace \in Elements(variants))

\* pm4py.discover_dfg(log): the pairs of activities that directly follow one
\* another in a case, with the start and the end activities.
discover_dfg(log) ==
    [dfg |-> UNION {{<<log[i][j], log[i][j + 1]>> : j \in 1 .. Len(log[i]) - 1} : i \in DOMAIN log},
     sa |-> {log[i][1] : i \in DOMAIN log},
     ea |-> {log[i][Len(log[i])] : i \in DOMAIN log}]

\* Faulty variant of filtered_variants: the selected variants as they were sent.
filtered_variants_as_sent(selected_variants_list, selected_activities_list) ==
    selected_variants_list

\* STEP 2 of update_dfg (lines 211-219): with selected activities, every
\* selected variant without its activities that are not selected; a variant of
\* which nothing is left is not kept.
filtered_variants(selected_variants_list, selected_activities_list) ==
    IF selected_activities_list # <<>>
    THEN SelectSeq([i \in DOMAIN selected_variants_list |->
                        SelectSeq(selected_variants_list[i],
                                  LAMBDA activity : activity \in Elements(selected_activities_list))],
                   LAMBDA filtered_variant : Len(filtered_variant) > 0)
    ELSE selected_variants_list

\* The filters of update_dfg (lines 199-225) and the discovery that follows
\* them: the calls of the library's filters in the order in which they are
\* made, each with the list it is given, the log they leave, and its DFG.
update_dfg_filters(event_log, selected_activities_list, selected_variants_list) ==
    LET step1 == IF selected_activities_list # <<>>
                 THEN <<[filter |-> "filter_event_attribute_values",
                         values |-> selected_activities_list]>>
                 ELSE <<>>
        by_activity == IF selected_activities_list # <<>>
                       THEN filter_event_attribute_values(event_log, selected_activities_list)
                       ELSE event_log
        variant_tuples == filtered_variants(selected_variants_list, selected_activities_list)
        step3 == IF variant_tuples # <<>>
                 THEN <<[filter |-> "filter_variants", values |-> variant_tuples]>>
                 ELSE <<>>
        filtered_log == IF variant_tuples # <<>>
                        THEN filter_variants(by_activity, variant_tuples)
                        ELSE by_activity
    IN  [calls |-> step1 \o step3, filtered_log |-> filtered_log,
         new_dfg |-> discover_dfg(filtered_log)]

UpdateDfgFilters ==
    /\ arg.kind = "filters"
    /\ ret = NoRet
    /\ ret' = [op |-> "update_dfg",
               out |-> update_dfg_filters(arg.event_log, arg.selected_activities,
                                          arg.selected_variants)]
    /\ arg' = arg
    /\ ServerIdle

InitFilters ==
    /\ logs = <<>>
    /\ models = <<>>
    /\ ocels = <<>>
    /\ model = None
    /\ clock = 0
    /\ last = NoLast
    /\ view = <<>>
    /\ stale = NoStale
    /\ pc = [c \in Clients |-> "idle"]
    /\ req = [c \in Clients |-> NoRequest]
    /\ running = NoClient
    /\ arg \in {[kind |-> "filters", event_log |-> event_log,
                 selected_activities |-> selected_activities,
                 selected_variants |-> selected_variants] :
                    event_log \in FilteredLogs,
                    selected_activities \in SelectedActivities,
                    selected_variants \in SelectedVariants}
    /\ ret = NoRet

NextFilters ==
    \/ UpdateDfgFilters

SpecFilters == InitFilters /\ [][NextFilters]_vars

\* ------------------------------------------------------------------ properties

UploadEndpoints == {"upload_log", "upload_model", "upload_ocel"}

DeleteEndpoints == {"delete_log", "delete_model", "delete_ocel"}

ListEndpoints == {"get_logs", "get_models", "get_ocels"}

MetricEndpoints ==
    {"discover_alpha", "discover_ilp", "discover_heuristics", "discover_inductive",
     "conformance_log_model"}

\* lst with the entry of index i taken out: the entries before it stay where
\* they are, the entries after it move down by one.
Without(lst, i) ==
    [k \in 1 .. Len(lst) - 1 |-> IF k <= i THEN lst[k] ELSE lst[k + 1]]

\* The lists the index arguments of an endpoint address, first and second.
IndexLists(ep) ==
    CASE ep \in {"delete_log", "explore", "update_dfg", "update_event_distribution_graph",
                 "discover_alpha", "discover_ilp", "discover_heuristics",
                 "discover_inductive"} -> <<"logs">>
      [] ep = "delete_model" -> <<"models">>
      [] ep \in {"delete_ocel", "update_ocel_event_distribution", "explore_ocel",
                 "discover_ocpm_im", "discover_ocpm_imd"} -> <<"ocels">>
      [] ep = "conformance_log_log" -> <<"logs", "logs">>
      [] ep \in {"conformance_log_model", "compute_custom_alignment"} -> <<"logs", "models">>
      [] ep = "conformance_model_model" -> <<"models", "models">>
      [] OTHER -> <<>>

\* The index arguments of the request just handled.
IndexArgs == <<last.i1, last.i2>>

\* Some index of the request just handled was negative or not below the length
\* its list had when the request arrived.
SomeIndexInvalid ==
    \E k \in 1 .. Len(IndexLists(last.ep)) :
        IndexArgs[k] < 0 \/ IndexArgs[k] >= Len(last.before[IndexLists(last.ep)[k]])

InvalidIndexMessages ==
    {"Invalid log index", "Invalid model index", "Invalid OCEL index",
     "Invalid first log index", "Invalid second log index",
     "Invalid first model index", "Invalid second model index",
     "Invalid index. No log found at this position.",
     "Invalid index. No model found at this position.",
     "Invalid index. No OCEL found at this position."}

\* C1: delete_log(index) and delete_ocel(index) with 0 <= index < len(list)
\* remove exactly the entry at that position, keep every other entry in its
\* relative order and return status "success"; with any other index the list
\* is unchanged and status "error" is returned.
DeleteRemovesExactlyTheEntry ==
    /\ last.ep = "delete_log" =>
          IF 0 <= last.i1 /\ last.i1 < Len(last.before.logs)
          THEN logs = Without(last.before.logs, last.i1) /\ last.out.status = "success"
          ELSE logs = last.before.logs /\ last.out.status = "error"
    /\ last.ep = "delete_ocel" =>
          IF 0 <= last.i1 /\ last.i1 < Len(last.before.ocels)
          THEN ocels = Without(last.before.ocels, last.i1) /\ last.out.status = "success"
          ELSE ocels = last.before.ocels /\ last.out.status = "error"

\* C1, reached: the first of two logs was deleted, the second moved down.
DeleteFirstOfTwoLogs ==
    /\ last.ep = "delete_log"
    /\ last.i1 = 0
    /\ Len(last.before.logs) = 2
    /\ logs = <<last.before.logs[2]>>
    /\ last.out.status = "success"

\* C2: delete_model(index) with 0 <= index < len(models) removes the model at
\* that position and returns a response with status "success".
DeleteModelSucceeds ==
    (last.ep = "delete_model" /\ 0 <= last.i1 /\ last.i1 < Len(last.before.models)) =>
        models = Without(last.before.models, last.i1) /\ last.out.status = "success"

\* C3: a successful upload_log, upload_model or upload_ocel appends exactly one
\* entry at the end of its own list; the entries already there keep their index
\* and content, and the other two lists are unchanged.
SuccessfulUploadAppendsOne ==
    /\ (last.ep = "upload_log" /\ last.out.status = "success") =>
          /\ Len(logs) = Len(last.before.logs) + 1
          /\ SubSeq(logs, 1, Len(last.before.logs)) = last.before.logs
          /\ models = last.before.models
          /\ ocels = last.before.ocels
    /\ (last.ep = "upload_model" /\ last.out.status = "success") =>
          /\ Len(models) = Len(last.before.models) + 1
          /\ SubSeq(models, 1, Len(last.before.models)) = last.before.models
          /\ logs = last.before.logs
          /\ ocels = last.before.ocels
    /\ (last.ep = "upload_ocel" /\ last.out.status = "success") =>
          /\ Len(ocels) = Len(last.before.ocels) + 1
          /\ SubSeq(ocels, 1, Len(last.before.ocels)) = last.before.ocels
          /\ logs = last.before.logs
          /\ models = last.before.models

\* C3, reached: a second model was uploaded with success.
SecondModelUploaded ==
    /\ last.ep = "upload_model"
    /\ last.out.status = "success"
    /\ Len(last.before.models) = 1
    /\ Len(models) = 2

\* C4: every endpoint other than the upload and delete endpoints leaves the
\* lists logs, models and ocels with the same length, the same order and the
\* same metadata for every entry, whatever its outcome.
OtherEndpointsKeepTheLists ==
    (last # NoLast /\ last.ep \notin UploadEndpoints \cup DeleteEndpoints) =>
        /\ Metadata(logs) = Metadata(last.before.logs)
        /\ Metadata(models) = Metadata(last.before.models)
        /\ Metadata(ocels) = Metadata(last.before.ocels)

\* C4, reached: explore ended in its except clause with a log in the list.
ExploreFailedWithLogStored ==
    /\ last.ep = "explore"
    /\ last.out.status = "error"
    /\ last.out.reads # {}
    /\ Len(logs) = 1

\* C5: whenever a supplied integer index is negative or not below the length of
\* its list, the endpoint returns status "error" with an "Invalid ... index"
\* message, having read no list entry, called no library function and written
\* no file; a negative index is never taken as counting from the end.
InvalidIndexRejectedFirst ==
    (last # NoLast /\ "TypeError" \notin last.out.raised /\ SomeIndexInvalid) =>
        /\ last.out.status = "error"
        /\ last.out.message \in InvalidIndexMessages
        /\ last.out.reads = {}
        /\ ~last.out.calls
        /\ ~last.out.wrote

\* C5, reached: conformance_log_model was given a valid log index and the model
\* index -1 while one model was stored.
NegativeModelIndexRejected ==
    /\ last.ep = "conformance_log_model"
    /\ last.i1 = 0
    /\ Len(last.before.logs) = 1
    /\ last.i2 = -1
    /\ Len(last.before.models) = 1
    /\ last.out.message = "Invalid model index"

\* C6: every response carries a "status" field, whose value is "success" or
\* "error", and a "message" field.
EveryResponseHasStatusAndMessage ==
    last # NoLast =>
        /\ last.out.status \in {"success", "error"}
        /\ last.out.message # NoMessage

StaleIndexActsOnAnotherEntry ==
    (/\ running = "A"
     /\ last.ep \in {"delete_log", "explore"}
     /\ 0 <= last.i1
     /\ last.i1 < Len(view)
     /\ stale <= last.i1) =>
        \/ last.out.message \in InvalidIndexMessages /\ last.out.reads = {}
        \/ /\ last.out.reads # {}
           /\ \A rd \in last.out.reads : rd[3].metadata # view[last.i1 + 1]

\* C8, reached: "A" was shown two logs, the other client deleted index 0, and the
\* request of "A" for index 0 acted on the entry "A" was shown at index 1.
StaleIndexHitTheNextEntry ==
    /\ running = "A"
    /\ last.ep = "delete_log"
    /\ last.i1 = 0
    /\ Len(view) = 2
    /\ stale = 0
    /\ \E rd \in last.out.reads : rd[3].metadata = view[2]

\* C9: only the read of the upload body suspends a handler: while a handler is
\* between its index validation and its body it holds the thread, no upload or
\* delete of another request has taken effect since the validation, an index
\* that passed the validation is in range, and no handler ends with the
\* IndexError of an entry read out of range.
ValidatedIndexStaysInRange ==
    /\ \A c \in Clients :
          pc[c] = "validated" =>
              /\ running = c
              /\ req[c].seen = Lens
              /\ ~InvalidIndex(req[c].i1, req[c].seen[ListOf(req[c].ep)]) =>
                    req[c].i1 < Len(Cur[ListOf(req[c].ep)])
    /\ last # NoLast => "IndexError" \notin last.out.raised

\* C9, reached: one client's upload is suspended at the read of its body while
\* the other client's delete_log has validated the index of a stored log.
ValidatedWhileUploadSuspended ==
    \E c, d \in Clients :
        /\ pc[c] = "validated"
        /\ req[c].ep = "delete_log"
        /\ req[c].i1 = 0
        /\ Len(logs) = 1
        /\ pc[d] = "reading"

\* C10: when the alignment computation raises (and no later step of the call
\* does), the discovery endpoints and conformance_log_model return status
\* "success" with align_fitness, align_precision and align_f1 all "PN not sound",
\* mean_fitness equal to tbr_fitness and mean_precision equal to tbr_precision;
\* in every successful response the three align_* fields are all numbers or all
\* the sentinel.
AlignmentFailureFallsBack ==
    last.ep \in MetricEndpoints =>
        /\ ("align" \in last.out.raised /\ last.R \cap {"footprints", "render"} = {}) =>
              /\ last.out.status = "success"
              /\ last.out.metrics.align_fitness = PN_NOT_SOUND
              /\ last.out.metrics.align_precision = PN_NOT_SOUND
              /\ last.out.metrics.align_f1 = PN_NOT_SOUND
              /\ last.out.metrics.mean_fitness = last.out.metrics.tbr_fitness
              /\ last.out.metrics.mean_precision = last.out.metrics.tbr_precision
        /\ last.out.status = "success" =>
              \/ /\ IsNumber(last.out.metrics.align_fitness)
                 /\ IsNumber(last.out.metrics.align_precision)
                 /\ IsNumber(last.out.metrics.align_f1)
              \/ /\ last.out.metrics.align_fitness = PN_NOT_SOUND
                 /\ last.out.metrics.align_precision = PN_NOT_SOUND
                 /\ last.out.metrics.align_f1 = PN_NOT_SOUND

\* C10, reached: in conformance_log_model the alignment raised, and so did the
\* per-variant diagnostics, with a replay fitness of 1.0; the response is a success.
AlignmentAndDiagnosticsRaised ==
    /\ last.ep = "conformance_log_model"
    /\ last.out.raised = {"align", "diagnostics"}
    /\ last.out.status = "success"
    /\ last.out.metrics.tbr_fitness = Float(2)
    /\ last.out.metrics.mean_fitness = Float(2)

\* C11: footprint_to_matrix(fp) returns the activities of fp sorted ascending
\* and an n x n matrix, n the number of activities, whose cell [i][j] is "||"
\* when (activities[i], activities[j]) is in the parallel set, "->" when it is in
\* the sequence set and not in the parallel set, and "" otherwise; a pair that
\* mentions an activity not in the activities set changes nothing, and a missing
\* key counts as the empty set.
FootprintMatrixShowsTheRelations ==
    ret.op = "footprint_to_matrix" =>
        LET fp == arg.fp1
            acts == IF "activities" \in DOMAIN fp THEN fp.activities ELSE {}
            seq == IF "sequence" \in DOMAIN fp THEN fp.sequence ELSE {}
            par == IF "parallel" \in DOMAIN fp THEN fp.parallel ELSE {}
            a == ret.value.activities
            m == ret.value.matrix
            n == Cardinality(acts)
        IN  /\ Len(a) = n
            /\ {a[i] : i \in 1 .. n} = acts
            /\ \A i, j \in 1 .. n : i < j => a[i] < a[j]
            /\ Len(m) = n
            /\ \A i \in 1 .. n :
                  /\ Len(m[i]) = n
                  /\ \A j \in 1 .. n :
                        m[i][j] = IF <<a[i], a[j]>> \in par THEN "||"
                                  ELSE IF <<a[i], a[j]>> \in seq THEN "->"
                                  ELSE ""

\* C11, reached: the matrix of a footprint with no "sequence" key, one activity
\* listed, a parallel pair of that activity and a parallel pair that mentions an
\* activity not listed.
MatrixOfFootprintWithForeignPair ==
    /\ ret.op = "footprint_to_matrix"
    /\ DOMAIN arg.fp1 = {"activities", "parallel"}
    /\ arg.fp1.activities = {2}
    /\ arg.fp1.parallel = {<<2, 2>>, <<1, 2>>}
    /\ ret.value = [activities |-> <<2>>, matrix |-> <<<<"||">>>>]

\* C11, reached: a pair in both the sequence and the parallel set, shown as "||".
MatrixOfPairInBothSets ==
    /\ ret.op = "footprint_to_matrix"
    /\ DOMAIN arg.fp1 = FootprintKeys
    /\ arg.fp1.activities = {1, 2}
    /\ <<1, 2>> \in arg.fp1.sequence \cap arg.fp1.parallel
    /\ ret.value.matrix[1][2] = "||"

\* C12: each nested copy of footprint_to_matrix in api.py (in explore,
\* conformance_log_log, conformance_log_model and conformance_model_model)
\* returns, for every footprint, what utils.helpers.footprint_to_matrix returns.
NestedCopiesAgreeWithHelper ==
    ret.op = "api.footprint_to_matrix" =>
        /\ ret.explore = ret.helpers
        /\ ret.log_log = ret.helpers
        /\ ret.log_model = ret.helpers
        /\ ret.model_model = ret.helpers

CompareEndpoints == {"conformance_log_log", "conformance_log_model", "conformance_model_model"}

\* The symbol a footprint matrix holds for the pair of activities p, "" when the
\* matrix does not list one of them.
Cell(m, p) ==
    IF \E i, j \in DOMAIN m.activities : m.activities[i] = p[1] /\ m.activities[j] = p[2]
    THEN LET i == CHOOSE i \in DOMAIN m.activities : m.activities[i] = p[1]
             j == CHOOSE j \in DOMAIN m.activities : m.activities[j] = p[2]
         IN  m.matrix[i][j]
    ELSE ""

\* The number of ordered pairs of activities, over the activities of both
\* matrices, at which the two matrices hold different symbols.
DifferentCells(m1, m2) ==
    LET acts == {m1.activities[i] : i \in DOMAIN m1.activities}
                    \cup {m2.activities[i] : i \in DOMAIN m2.activities}
    IN  Cardinality({p \in acts \X acts : Cell(m1, p) # Cell(m2, p)})

\* C13: the num_different_cells value returned by conformance_log_log,
\* conformance_log_model and conformance_model_model is the number of cells at
\* which the two footprint matrices of the response differ (for footprints as
\* the library discovers them).
NumDifferentCellsCountsTheCells ==
    (ret.op \in CompareEndpoints /\ arg.fp1 \in DiscoveredFootprints) =>
        ret.out.num_different_cells
            = DifferentCells(ret.out.footprint1_matrix, ret.out.footprint2_matrix)

\* C18: the footprint_conformance value returned by conformance_log_log,
\* conformance_log_model and conformance_model_model lies between 0.0 and 1.0
\* inclusive (for footprints as the library discovers them).
FootprintConformanceInUnitInterval ==
    (ret.op \in CompareEndpoints /\ arg.fp1 \in DiscoveredFootprints) =>
        /\ 0 <= ret.out.footprint_conformance.num
        /\ ret.out.footprint_conformance.num <= ret.out.footprint_conformance.den

\* The pairs that are in exactly one of the two sets.
InExactlyOne(a, b) == {p \in a \cup b : (p \in a) # (p \in b)}

\* C19: count_footprint_differences(fp1, fp2) is |sequence1 xor sequence2| +
\* |parallel1 xor parallel2|, equals count_footprint_differences(fp2, fp1), and
\* is 0 exactly when both footprints have equal sequence sets and equal parallel
\* sets; conformance_log_log(i, j) and conformance_log_log(j, i) report the same
\* num_different_cells and footprint_conformance.
DifferenceCountIsSymmetric ==
    /\ ret.op = "count_footprint_differences" =>
          LET seq1 == IF "sequence" \in DOMAIN arg.fp1 THEN arg.fp1.sequence ELSE {}
              par1 == IF "parallel" \in DOMAIN arg.fp1 THEN arg.fp1.parallel ELSE {}
              seq2 == arg.fp2.sequence
              par2 == arg.fp2.parallel
          IN  /\ ret.value = Cardinality(InExactlyOne(seq1, seq2))
                                 + Cardinality(InExactlyOne(par1, par2))
              /\ ret.value = ret.swapped
              /\ ret.value = 0 <=> (seq1 = seq2 /\ par1 = par2)
    /\ ret.op = "conformance_log_log" =>
          /\ ret.out.num_different_cells = ret.swapped.num_different_cells
          /\ ret.out.footprint_conformance = ret.swapped.footprint_conformance

\* C19, reached: two logs over the same two activities, one with the activities
\* in sequence and one with them parallel, differ by three in either order.
SequenceAgainstParallelCounted ==
    /\ ret.op = "conformance_log_log"
    /\ arg.fp1 = [activities |-> {1, 2}, sequence |-> {<<1, 2>>}, parallel |-> {}]
    /\ arg.fp2 = [activities |-> {1, 2}, sequence |-> {}, parallel |-> {<<1, 2>>, <<2, 1>>}]
    /\ ret.out.num_different_cells = 3
    /\ ret.swapped.num_different_cells = 3

\* C20: conformance_log_log(i, i) and conformance_model_model(i, i) report
\* num_different_cells = 0, and footprint_conformance 1.0 when the footprint of
\* the artifact has at least one activity and 0.0 when it has none.
SelfComparisonIsPerfect ==
    ret.op = "self" =>
        /\ ret.out.num_different_cells = 0
        /\ IF "activities" \in DOMAIN arg.fp1 /\ arg.fp1.activities # {}
           THEN /\ ret.out.footprint_conformance.den > 0
                /\ ret.out.footprint_conformance.num = ret.out.footprint_conformance.den
           ELSE ret.out.footprint_conformance.num = 0

\* C20, reached: a model whose footprint has no activities compared with itself.
EmptyFootprintComparedWithItself ==
    /\ ret.op = "self"
    /\ ret.ep = "conformance_model_model"
    /\ arg.fp1 = [activities |-> {}, sequence |-> {}, parallel |-> {}]
    /\ ret.out.num_different_cells = 0
    /\ ret.out.footprint_conformance = Ratio(0, 1)

\* C20, reached: a log with two activities and relations compared with itself.
LogComparedWithItself ==
    /\ ret.op = "self"
    /\ ret.ep = "conformance_log_log"
    /\ arg.fp1 = [activities |-> {1, 2}, sequence |-> {<<1, 2>>}, parallel |-> {<<1, 1>>}]
    /\ ret.out.footprint_conformance = Ratio(4, 4)

\* The list a list endpoint reports.
ListedBy(ep) ==
    CASE ep = "get_logs" -> "logs"
      [] ep = "get_models" -> "models"
      [] ep = "get_ocels" -> "ocels"

\* C14: get_logs, get_models and get_ocels return the metadata of every entry
\* of the list, in list order, with count equal to the list length and without
\* the stored object, and leave the list as it is; the entry a request with
\* index k reads is the one at position k of the list, the one whose metadata a
\* listing shows at position k.
ListingShowsTheList ==
    /\ last.ep \in ListEndpoints =>
          LET lst == last.before[ListedBy(last.ep)]
          IN  /\ Len(last.out.listing) = Len(lst)
              /\ last.out.count = Len(lst)
              /\ \A k \in 1 .. Len(lst) :
                    /\ last.out.listing[k] = lst[k].metadata
                    /\ DOMAIN last.out.listing[k]
                          \cap {"log_object", "model_object", "ocel_object"} = {}
              /\ Cur[ListedBy(last.ep)] = lst
    /\ last # NoLast =>
          \A rd \in last.out.reads :
              \E k \in 1 .. Len(IndexLists(last.ep)) :
                  /\ rd[1] = IndexLists(last.ep)[k]
                  /\ rd[2] = IndexArgs[k] + 1
                  /\ rd[3] = last.before[rd[1]][IndexArgs[k] + 1]

\* C14, reached: two models are stored and listed, oldest first.
TwoModelsListed ==
    /\ last.ep = "get_models"
    /\ Len(models) = 2
    /\ last.out.count = 2
    /\ last.out.listing[1].uploaded_at < last.out.listing[2].uploaded_at

\* C14, reached: the first of two logs was deleted and the listing shows the
\* remaining one at position 0.
ListedAfterDelete ==
    /\ last.ep = "get_logs"
    /\ Len(logs) = 1
    /\ logs[1].log_object = 2
    /\ last.out.listing = <<logs[1].metadata>>

\* C15: an upload handler that created the temporary file for the uploaded
\* content has removed it when it returns, on every path (the removal itself
\* not failing).
UploadRemovesItsTemporaryFile ==
    (last.ep \in UploadEndpoints /\ "unlink" \notin last.R) =>
        last.out.tmp \in {"none", "removed"}

\* C16: an upload or delete request that returns status "error" leaves the lists
\* logs, models and ocels and the active model state.model as they were before
\* the request (also when no library call and no file operation fails).
ErrorLeavesStateUnchanged ==
    (/\ last.ep \in UploadEndpoints \cup DeleteEndpoints
     /\ last.R = {}
     /\ last.out.status = "error") =>
        /\ logs = last.before.logs
        /\ models = last.before.models
        /\ ocels = last.before.ocels
        /\ model = last.before.model

\* C17: every entry of alignment_data and of tbr_data of conformance_log_model
\* pairs a variant with the diagnostics of the trace of variant_log whose
\* activity sequence is that variant, and with that variant's number of cases
\* (also when get_variants lists the variants in the order of their first cases).
VariantDiagnosticsMatchTheirVariant ==
    (ret.op = "variant_diagnostics" /\ ret.order = variant_traces(arg.cases)) =>
        \A data \in {ret.out.alignment_data, ret.out.tbr_data} :
            \A idx \in DOMAIN data :
                /\ data[idx].result.of = data[idx].variant
                /\ data[idx].frequency
                      = Cardinality({i \in DOMAIN arg.cases : arg.cases[i] = data[idx].variant})

\* C21: explore returns in available_variants at most 20 entries, and they are
\* the most frequent variants of the log: no variant left out of
\* available_variants has more cases than a variant that is in it.
AvailableVariantsAreTheMostFrequent ==
    ret.op = "available_variants" =>
        /\ Len(ret.out) <= AvailableVariants
        /\ \A i \in DOMAIN arg.items :
              (\A j \in DOMAIN ret.out : ret.out[j].activities # arg.items[i][1]) =>
                  \A j \in DOMAIN ret.out : arg.items[i][2] <= ret.out[j].frequency

\* The durations of the cases of the log that have the variant, in the order of
\* the cases.
DurationsOf(cases, variant) ==
    LET own == SelectSeq(cases, LAMBDA c : c.variant = variant)
    IN  [i \in DOMAIN own |-> own[i].duration]

\* The position of the variant in the order of the library's dict.
PositionIn(order, variant) == CHOOSE k \in DOMAIN order : order[k] = variant

\* C22: in get_log_insights the throughput-time statistics avg_tpt, min_tpt,
\* max_tpt and median_tpt of every trace variant are those of the durations of
\* exactly the cases that have this variant, as many durations as the variant
\* has cases.  (Checked for the list of case durations as the library returns
\* it, in ascending order.)
VariantThroughputTimesAreOfItsCases ==
    (/\ ret.op = "get_log_insights"
     /\ ret.R = {}
     /\ ret.case_durations = sorted_durations(ret.case_durations)) =>
        \A k \in DOMAIN ret.out.trace_variants :
            LET e == ret.out.trace_variants[k]
                own == DurationsOf(arg.cases, e.activities)
            IN  /\ Len(own) = e.frequency
                /\ [avg_tpt |-> e.avg_tpt, min_tpt |-> e.min_tpt,
                    max_tpt |-> e.max_tpt, median_tpt |-> e.median_tpt] = tpt(own)

\* C23: get_log_insights returns trace_variants with exactly one entry per
\* variant the library reported, as many as num_trace_variants, ordered by
\* non-increasing frequency, entries of equal frequency in the order in which
\* the library reported their variants.
TraceVariantsSortedByFrequency ==
    (ret.op = "get_log_insights" /\ ret.R = {}) =>
        LET trace_variants == ret.out.trace_variants
            variants == get_variants(VariantsOf(arg.cases))
        IN  /\ Len(trace_variants) = ret.out.num_trace_variants
            /\ Len(trace_variants) = Cardinality(DOMAIN variants)
            /\ \A v \in DOMAIN variants :
                  \E k \in DOMAIN trace_variants :
                      /\ trace_variants[k].activities = v
                      /\ trace_variants[k].frequency = variants[v]
            /\ \A i, j \in DOMAIN trace_variants :
                  i < j =>
                      /\ trace_variants[i].frequency >= trace_variants[j].frequency
                      /\ trace_variants[i].frequency = trace_variants[j].frequency =>
                            PositionIn(ret.order, trace_variants[i].activities)
                                < PositionIn(ret.order, trace_variants[j].activities)

\* C23, reached: the library reported a variant of one case before a variant of
\* two cases; the entry of the variant of two cases is first.
TraceVariantsReordered ==
    /\ ret.op = "get_log_insights"
    /\ ret.R = {}
    /\ Len(ret.order) = 2
    /\ Len(ret.out.trace_variants) = 2
    /\ ret.out.trace_variants[1].activities = ret.order[2]
    /\ ret.out.trace_variants[1].frequency = 2
    /\ ret.out.trace_variants[2].activities = ret.order[1]
    /\ ret.out.trace_variants[2].frequency = 1

\* The endpoints that call get_log_insights.
InsightEndpoints ==
    {"explore", "explore_ocel",
     "discover_alpha", "discover_ilp", "discover_heuristics", "discover_inductive"}

\* C24: get_log_insights never raises: when a step inside it raises, it returns
\* a dictionary with every count and statistic 0, every collection empty and
\* the added key "error", so that explore, explore_ocel and the discover_*
\* endpoints, when nothing but the insight computation fails, answer with
\* status "success" and these zeroed insights, not with status "error".
InsightFailureReturnsZeroedInsights ==
    (/\ last # NoLast
     /\ last.ep \in InsightEndpoints
     /\ last.R = {"insights"}
     /\ ~SomeIndexInvalid) =>
        /\ last.out.status = "success"
        /\ "caught" \notin last.out.raised
        /\ last.out.insights = get_log_insights(<<>>, <<>>, <<>>, {"library"})
        /\ LET zeroed == last.out.insights
           IN  /\ "error" \in DOMAIN zeroed
               /\ \A key \in {"num_events", "num_cases", "num_activities", "num_trace_variants",
                              "log_avg_tpt", "log_min_tpt", "log_max_tpt", "log_median_tpt"} :
                      zeroed[key] = 0
               /\ \A key \in {"activity_frequencies", "activity_case_counts",
                              "activity_durations", "trace_variants",
                              "start_activities", "end_activities"} :
                      DOMAIN zeroed[key] = {}

\* C24, reached: explore of an uploaded log, the computation inside
\* get_log_insights raised and nothing else did; the response has status
\* "success" and carries the zeroed insights.
ExploreWithFailedInsights ==
    /\ last.ep = "explore"
    /\ last.R = {"insights"}
    /\ last.out.status = "success"
    /\ last.out.message = "Exploration completed successfully"
    /\ last.out.insights = ZeroInsights

\* The trace without its activities that are not among the selected ones.
Projection(trace, selected) ==
    LET kept == {i \in DOMAIN trace : trace[i] \in selected}
        nth(k) == CHOOSE i \in kept : Cardinality({j \in kept : j < i}) = k - 1
    IN  [k \in 1 .. Cardinality(kept) |-> trace[nth(k)]]

\* C25: update_dfg applies its filters in a fixed order: with a non-empty
\* selected_activities the log is first filtered to the events of those
\* activities, then every selected variant is reduced to its activities that
\* are selected and the variants reduced to the empty sequence are dropped, and
\* the variant filter is applied, after the activity filter and with the
\* reduced variants, only if at least one reduced variant remains; if selected
\* variants were given but all of them are dropped, no variant filter is
\* applied and the DFG is that of the activity-filtered log.
UpdateDfgFiltersInFixedOrder ==
    ret.op = "update_dfg" =>
        LET selected == Elements(arg.selected_activities)
            by_activity ==
                IF selected = {} THEN arg.event_log
                ELSE SelectSeq([i \in DOMAIN arg.event_log |->
                                    Projection(arg.event_log[i], selected)],
                               LAMBDA trace : trace # <<>>)
            reduced ==
                IF selected = {} THEN Elements(arg.selected_variants)
                ELSE {Projection(v, selected) : v \in Elements(arg.selected_variants)} \ {<<>>}
            filtered == IF reduced = {} THEN by_activity
                        ELSE SelectSeq(by_activity, LAMBDA trace : trace \in reduced)
            calls == ret.out.calls
        IN  /\ Len(calls) = (IF selected = {} THEN 0 ELSE 1) + (IF reduced = {} THEN 0 ELSE 1)
            /\ selected # {} =>
                  /\ calls[1].filter = "filter_event_attribute_values"
                  /\ Elements(calls[1].values) = selected
            /\ reduced # {} =>
                  /\ calls[Len(calls)].filter = "filter_variants"
                  /\ Elements(calls[Len(calls)].values) = reduced
            /\ ret.out.filtered_log = filtered
            /\ ret.out.new_dfg = discover_dfg(filtered)

\* C25, reached: activities were selected and a variant that has none of them;
\* only the activity filter was applied and the DFG is that of the cases that
\* have a selected activity.
EverySelectedVariantDropped ==
    /\ ret.op = "update_dfg"
    /\ arg.event_log = <<<<1, 2>>, <<2>>>>
    /\ arg.selected_activities = <<1>>
    /\ arg.selected_variants = <<<<2>>>>
    /\ Len(ret.out.calls) = 1
    /\ ret.out.calls[1].filter = "filter_event_attribute_values"
    /\ ret.out.filtered_log = <<<<1>>>>

====
